---------------------------- MODULE Spec2Model ----------------------------
(***************************************************************************)
(* Identity and access subsystem of the elder-health checkup API:          *)
(* the in-memory sliding-window rate limiter (sensitiveOperationLimit),    *)
(* the session tokens (generateToken / verifyToken), the authenticate      *)
(* middleware and the login route.                                         *)
(***************************************************************************)
EXTENDS Integers, Sequences, FiniteSets, TLC

VARIABLES
    now,             \* Date.now(), milliseconds
    rateLimitStore,  \* global.rateLimitStore: key -> sequence of timestamps
    calls,           \* history: key -> sequence of limiter calls and outcomes
    users,           \* the users table: id -> row
    reqs,            \* the requests being handled, one record per slot
    held,            \* the tokens that clients hold (returned by login)
    verdicts,        \* history: what verifyToken returned, per kind of token
    profiles,        \* the profiles table: id -> row
    checkups,        \* the checkups table: id -> row
    qr,              \* the QR text at hand and what the utilities made of it
    hashes,          \* the hashPassword calls made so far and the last comparePassword call
    tx               \* the transaction in progress, from getConnection to release

vars == <<now, rateLimitStore, calls, users, reqs, held, verdicts, profiles, checkups, qr, hashes, tx>>

(***************************************************************************)
(* Time.  The clock advances in steps of TickMs; a window is               *)
(* TicksPerWindow steps, so that "exactly one window later" is a clock     *)
(* value the model reaches.                                                *)
(***************************************************************************)
windowMs == 15 * 60 * 1000
maxAttempts == 5

TicksPerWindow == 3
MaxTicks == 6
MaxCalls == 7

TickMs == windowMs \div TicksPerWindow
Times == {i * TickMs : i \in 0..MaxTicks}

(***************************************************************************)
(* sensitiveOperationLimit                                                 *)
(***************************************************************************)
NoUser == [id |-> 0]
IPs == {"10.0.0.1", "10.0.0.2"}

\* `${req.ip}_${req.user?.id || 'anonymous'}`: an absent user and a falsy id
\* both give the 'anonymous' suffix.
RateLimitKey(ip, user) ==
    <<ip, IF user.id = 0 THEN "anonymous" ELSE ToString(user.id)>>

\* global.rateLimitStore.get(key) || []
userAttempts(key) ==
    IF key \in DOMAIN rateLimitStore THEN rateLimitStore[key] ELSE <<>>

\* A fixed-bucket limiter: attempts count while the clock is in their bucket.
InWindowBucket(time, t) == (t \div windowMs) = (time \div windowMs)

\* time => now - time < windowMs
InWindow(time, t) == t - time < windowMs

\* A read of the store that prunes nothing.
recentAttemptsUnpruned(key, t) == userAttempts(key)

\* userAttempts.filter(time => now - time < windowMs)
recentAttempts(key, t) ==
    SelectSeq(userAttempts(key), LAMBDA time : InWindow(time, t))

\* An off-by-one limit test.
LimitReachedOffByOne(recent) == Len(recent) > maxAttempts

\* recentAttempts.length >= maxAttempts
LimitReached(recent) == Len(recent) >= maxAttempts

\* A write that forgets the attempts that were read.
PushAttemptLost(recent, t) == <<t>>

\* recentAttempts.push(now)
PushAttempt(recent, t) == Append(recent, t)

\* A store that holds the attempts of one key at a time.
StoreSetOnly(key, value) == [k \in {key} |-> value]

\* global.rateLimitStore.set(key, recentAttempts)
StoreSet(key, value) ==
    [k \in DOMAIN rateLimitStore \cup {key} |->
        IF k = key THEN value ELSE rateLimitStore[k]]

CallsOf(key) == IF key \in DOMAIN calls THEN calls[key] ELSE <<>>

LogCall(key, admitted) ==
    [k \in DOMAIN calls \cup {key} |->
        IF k = key
        THEN Append(CallsOf(key),
                    [at |-> now, next |-> admitted,
                     status |-> IF admitted THEN 0 ELSE 429])
        ELSE calls[k]]

\* A limiter that also records the attempts it rejects.
sensitiveOperationLimitRecording(key) ==
    LET recent == recentAttempts(key, now) IN
    /\ rateLimitStore' = StoreSet(key, PushAttempt(recent, now))
    /\ calls' = LogCall(key, ~LimitReached(recent))

\* The whole middleware: it is synchronous (no await between the read of the
\* store and the write), so it is one step of the event loop.
sensitiveOperationLimit(key) ==
    LET recent == recentAttempts(key, now) IN
    IF LimitReached(recent)
    THEN /\ rateLimitStore' = rateLimitStore
         /\ calls' = LogCall(key, FALSE)
    ELSE /\ rateLimitStore' = StoreSet(key, PushAttempt(recent, now))
         /\ calls' = LogCall(key, TRUE)

\* History: the number of calls admitted for key less than one window ago.
LiveAdmitted(key) ==
    Cardinality({i \in 1..Len(CallsOf(key)) :
                    CallsOf(key)[i].next /\ now - CallsOf(key)[i].at < windowMs})

TotalCalls ==
    LET RECURSIVE Sum(_)
        Sum(S) == IF S = {} THEN 0
                  ELSE LET k == CHOOSE x \in S : TRUE
                       IN Len(calls[k]) + Sum(S \ {k})
    IN Sum(DOMAIN calls)

(***************************************************************************)
(* Passwords: bcryptjs.  A hash embeds its salt; the digest is determined   *)
(* by the salt and the key, which is the first 72 bytes of the plaintext,  *)
(* and compare recomputes it from the salt embedded in the stored hash.    *)
(***************************************************************************)
\* The part of a password that bcrypt reads.
bcryptKey(password) ==
    IF Len(password) > 72 THEN SubSeq(password, 1, 72) ELSE password

Digest(salt, password) == <<salt, bcryptKey(password)>>

\* bcrypt.hash(password, saltRounds) with the salt the call drew
hashPassword(password, salt) ==
    [salt |-> salt, digest |-> Digest(salt, password)]

\* bcrypt.compare(password, hashedPassword)
comparePassword(password, hashedPassword) ==
    hashedPassword.digest = Digest(hashedPassword.salt, password)

(***************************************************************************)
(* Session tokens: jsonwebtoken.  A token has three segments; the body     *)
(* carries the claims with iat and exp in seconds; the signature is        *)
(* determined by the secret and the body.                                  *)
(***************************************************************************)
JWT_SECRET == "process.env.JWT_SECRET"
expiresInSec == 24 * 60 * 60
expiresInMs == expiresInSec * 1000

NoBody == [userId |-> 0, username |-> "", role |-> "", iat |-> 0, exp |-> 0]
NoSig == <<"", NoBody>>
NoToken == [parts |-> 0, body |-> NoBody, sig |-> NoSig]

Sign(secret, body) == <<secret, body>>

\* jwt.sign(payload, secret, {expiresIn}) at clock t
jwt_sign(payload, secret, t) ==
    LET iat == t \div 1000
        body == [userId |-> payload.userId, username |-> payload.username,
                 role |-> payload.role, iat |-> iat, exp |-> iat + expiresInSec]
    IN [parts |-> 3, body |-> body, sig |-> Sign(secret, body)]

\* A verification that reads the claims without checking the signature.
jwt_verifyUnsigned(token, secret, t) ==
    IF token.parts # 3
    THEN [ok |-> FALSE, error |-> "JsonWebTokenError: jwt malformed",
          payload |-> NoBody]
    ELSE IF t \div 1000 >= token.body.exp
    THEN [ok |-> FALSE, error |-> "TokenExpiredError: jwt expired",
          payload |-> NoBody]
    ELSE [ok |-> TRUE, error |-> "", payload |-> token.body]

\* A verification that compares the clock in milliseconds with exp.
jwt_verifyMillis(token, secret, t) ==
    IF token.parts # 3
    THEN [ok |-> FALSE, error |-> "JsonWebTokenError: jwt malformed",
          payload |-> NoBody]
    ELSE IF token.sig # Sign(secret, token.body)
    THEN [ok |-> FALSE, error |-> "JsonWebTokenError: invalid signature",
          payload |-> NoBody]
    ELSE IF t >= token.body.exp
    THEN [ok |-> FALSE, error |-> "TokenExpiredError: jwt expired",
          payload |-> NoBody]
    ELSE [ok |-> TRUE, error |-> "", payload |-> token.body]

\* jwt.verify(token, secret) at clock t: structure, then signature, then
\* expiry; each failure throws its own error.
jwt_verify(token, secret, t) ==
    IF token.parts # 3
    THEN [ok |-> FALSE, error |-> "JsonWebTokenError: jwt malformed",
          payload |-> NoBody]
    ELSE IF token.sig # Sign(secret, token.body)
    THEN [ok |-> FALSE, error |-> "JsonWebTokenError: invalid signature",
          payload |-> NoBody]
    ELSE IF t \div 1000 >= token.body.exp
    THEN [ok |-> FALSE, error |-> "TokenExpiredError: jwt expired",
          payload |-> NoBody]
    ELSE [ok |-> TRUE, error |-> "", payload |-> token.body]

generateToken(payload, t) == jwt_sign(payload, JWT_SECRET, t)

\* A verifyToken that lets the error of jwt.verify through.
verifyTokenWithError(token, t) ==
    LET r == jwt_verify(token, JWT_SECRET, t)
    IN [null |-> ~r.ok, error |-> r.error, claims |-> r.payload]

\* try { return jwt.verify(...) } catch (error) { return null }
verifyToken(token, t) ==
    LET r == jwt_verify(token, JWT_SECRET, t)
    IN [null |-> ~r.ok, error |-> "", claims |-> r.payload]

\* The outcomes of verifyToken recorded so far, by the kind of token that
\* was presented.
TokenKinds == {"valid", "expired", "signature", "malformed"}
NoVerdict == [seen |-> FALSE, null |-> FALSE, error |-> "", claims |-> NoBody]
NoVerdicts == [k \in TokenKinds |-> NoVerdict]

\* Ways to present a token that was not issued as it is.
Malformed(token) == [token EXCEPT !.parts = 2]
Forged(token) == [token EXCEPT !.sig = Sign("guessed secret", token.body)]
Tampered(token) == [token EXCEPT !.body.role = "admin", !.body.userId = 1]

\* The bodies that differ from a body in one claim.
AlteredBodies(body) ==
    ({[body EXCEPT !.userId = u] : u \in 1..3}
     \cup {[body EXCEPT !.role = x] : x \in {"admin", "kader", ""}}
     \cup {[body EXCEPT !.username = x] : x \in {"admin", "vicky1"}}
     \cup {[body EXCEPT !.exp = e] : e \in {body.exp + 1, body.exp + expiresInSec}}
     \cup {[body EXCEPT !.iat = body.iat + 1]}) \ {body}

\* A token with one character changed: the change falls on a separator,
\* which changes the number of segments, on the body segment, which then
\* reads as another body (or as none), or on the signature segment, which
\* is then another signature.
OneCharAltered(token) ==
    {[token EXCEPT !.parts = n] : n \in {2, 4}}
    \cup {[token EXCEPT !.body = b] : b \in AlteredBodies(token.body) \cup {NoBody}}
    \cup {[token EXCEPT !.sig = x] :
             x \in {Sign("guessed secret", token.body), NoSig}
                   \cup {Sign(JWT_SECRET, b) : b \in AlteredBodies(token.body)}}

\* The tokens a client can present: those it holds, as issued or altered.
Presentable == held \cup {Malformed(t) : t \in held}
                    \cup {Forged(t) : t \in held}
                    \cup {Tampered(t) : t \in held}

(***************************************************************************)
(* The users table and the query helpers of config/database.js.            *)
(***************************************************************************)
NoHash == [salt |-> "", digest |-> Digest("", "")]
NoRow == [id |-> 0, username |-> "", password |-> NoHash, role |-> "",
          is_active |-> FALSE, last_login |-> -1]

Row(id, username, plain, role, active) ==
    [id |-> id, username |-> username,
     password |-> hashPassword(plain, "salt"), role |-> role,
     is_active |-> active, last_login |-> -1]

\* Rows of a set of ids of a table in ascending id order.
RECURSIVE RowsIn(_, _)
RowsIn(table, ids) ==
    IF ids = {} THEN <<>>
    ELSE LET m == CHOOSE x \in ids : \A y \in ids : x <= y
         IN <<table[m]>> \o RowsIn(table, ids \ {m})

RowsOf(ids) == RowsIn(users, ids)

\* pool.execute of a SELECT on users, wrapped by executeQuery: a thrown
\* error is caught and becomes {success: false}.
executeQuery(ids, fails) ==
    IF fails THEN [success |-> FALSE, data |-> <<>>]
    ELSE [success |-> TRUE, data |-> RowsOf(ids)]

\* executeQuery of a SELECT on another table.
executeSelect(table, ids, fails) ==
    IF fails THEN [success |-> FALSE, data |-> <<>>]
    ELSE [success |-> TRUE, data |-> RowsIn(table, ids)]

\* getOne: the first row, or {success: false, error: 'Record not found'}
\* both when no row matches and when the query failed.
getOne(result) ==
    IF result.success /\ Len(result.data) > 0
    THEN [success |-> TRUE, thrown |-> FALSE, data |-> result.data[1]]
    ELSE [success |-> FALSE, thrown |-> FALSE, data |-> NoRow]

\* WHERE username = ?
IdsByUsername(username) ==
    {i \in DOMAIN users : users[i].username = username}

\* WHERE id = ?
IdsById(id) == {i \in DOMAIN users : i = id}

\* update('users', {last_login}, 'id = ?', [id])
UpdateLastLogin(id, at) ==
    [i \in DOMAIN users |->
        IF i = id THEN [users[i] EXCEPT !.last_login = at] ELSE users[i]]

(***************************************************************************)
(* Requests.  Each slot holds one request from its arrival to its          *)
(* response; a handler runs from one await to the next as one step.        *)
(***************************************************************************)
Reqs == {1, 2}
MaxLogins == 6

NoHeader == [present |-> FALSE, scheme |-> "", token |-> NoToken]

\* The value of a member that a JavaScript object does not have.
Undefined == [t |-> "undefined"]

\* req.body of a request without one.  Strings that validators look into
\* are sequences of characters.
NoBodyFields ==
    [username |-> <<>>, password |-> <<>>, posyandu_name |-> <<>>, role |-> ""]

Idle ==
    [route |-> "none", pc |-> "idle", ip |-> "",
     username |-> "", password |-> "", authorization |-> NoHeader,
     decoded |-> NoBody, user |-> NoRow, row |-> NoRow, at |-> 0, loginAt |-> 0,
     dbFailed |-> FALSE, lookedUp |-> FALSE, compared |-> FALSE,
     windowFull |-> FALSE, status |-> 0, message |-> "", token |-> NoToken,
     id |-> <<>>, body |-> NoBodyFields, hashed |-> NoHash, wrote |-> FALSE,
     qr_data |-> Undefined, profileId |-> Undefined, profile |-> 0,
     key |-> <<"", "">>, pin |-> "", pinUserId |-> Undefined,
     gula_darah |-> Undefined]

\* res.status(status).json({success, message}): the request is answered.
Respond(q, status, message) ==
    [q EXCEPT !.pc = "done", !.status = status, !.message = message]

SetReq(r, q) == [reqs EXCEPT ![r] = q]

Free(r) == reqs[r].pc \in {"idle", "done"}

\* Fewer than n login attempts have reached or are about to reach the
\* limiter.
LoginsBelow(n) ==
    TotalCalls + Cardinality({x \in Reqs : reqs[x].pc = "limit"}) < n

\* validateUserLogin: body('username').notEmpty(), body('password').notEmpty()
validateUserLogin(q) == q.username # "" /\ q.password # ""

\* POST /api/auth/login arrives; validateUserLogin and
\* handleValidationErrors run before the limiter.
ReceiveLogin(r, ip, username, password) ==
    /\ Free(r)
    /\ LET q == [Idle EXCEPT !.route = "login", !.ip = ip, !.at = now,
                             !.username = username, !.password = password]
       IN reqs' = SetReq(r, IF validateUserLogin(q)
                            THEN [q EXCEPT !.pc = "limit"]
                            ELSE Respond(q, 400, "Validation failed"))
    /\ UNCHANGED <<now, rateLimitStore, calls, users, held, verdicts, profiles, checkups, qr, hashes, tx>>

\* A limiter whose 429 branch lacks its return: the handler runs anyway.
AfterLimitNoReturn(q, admitted) == [q EXCEPT !.pc = "lookup"]

\* next() on admission, return res.status(429).json(...) otherwise
AfterLimit(q, admitted) ==
    IF admitted
    THEN [q EXCEPT !.pc = "lookup"]
    ELSE Respond(q, 429, "Too many attempts. Please try again later.")

\* sensitiveOperationLimit on the login route, then the handler up to its
\* first await (the user lookup is issued).  No authenticate runs on this
\* route, so req.user is undefined.
LoginLimit(r) ==
    LET q == reqs[r]
        key == RateLimitKey(q.ip, q.user)
        admitted == ~LimitReached(recentAttempts(key, now))
    IN /\ q.route = "login" /\ q.pc = "limit"
       /\ sensitiveOperationLimit(key)
       /\ reqs' = SetReq(r, AfterLimit(
                     [q EXCEPT !.windowFull = LiveAdmitted(key) >= maxAttempts,
                               !.key = key],
                     admitted))
       /\ UNCHANGED <<now, users, held, verdicts, profiles, checkups, qr, hashes, tx>>

\* A login handler that does not look at is_active.
LoginAfterLookupNoActive(q, userResult) ==
    IF userResult.thrown
    THEN Respond(q, 500, "Login failed")
    ELSE IF ~userResult.success
    THEN Respond(q, 401, "Invalid credentials")
    ELSE [q EXCEPT !.row = userResult.data, !.pc = "compare"]

\* What the login handler does with the result of its user lookup.
LoginAfterLookup(q, userResult) ==
    IF userResult.thrown
    THEN Respond(q, 500, "Login failed")
    ELSE IF ~userResult.success
    THEN Respond(q, 401, "Invalid credentials")
    ELSE IF ~userResult.data.is_active
    THEN Respond([q EXCEPT !.row = userResult.data], 401, "Account is deactivated")
    ELSE [q EXCEPT !.row = userResult.data, !.pc = "compare"]

\* getOne('SELECT ... FROM users WHERE username = ?') returns; the query
\* may fail.
LoginLookup(r, fails) ==
    LET q == reqs[r]
        userResult == getOne(executeQuery(IdsByUsername(q.username), fails))
    IN /\ q.route = "login" /\ q.pc = "lookup"
       /\ reqs' = SetReq(r, LoginAfterLookup(
                     [q EXCEPT !.lookedUp = TRUE, !.dbFailed = fails], userResult))
       /\ UNCHANGED <<now, rateLimitStore, calls, users, held, verdicts, profiles, checkups, qr, hashes, tx>>

\* comparePassword returns; on success update('users', {last_login}) is
\* issued with the current date.
LoginCompare(r) ==
    LET q == [reqs[r] EXCEPT !.compared = TRUE]
    IN /\ q.route = "login" /\ q.pc = "compare"
       /\ reqs' = SetReq(r, IF comparePassword(q.password, q.row.password)
                            THEN [q EXCEPT !.pc = "update", !.loginAt = now]
                            ELSE Respond(q, 401, "Invalid credentials"))
       /\ UNCHANGED <<now, rateLimitStore, calls, users, held, verdicts, profiles, checkups, qr, hashes, tx>>

MaxHeld == 1

\* The update returns (its result is not looked at), the token is generated
\* and the 200 response sent; the client may keep the token.
LoginUpdate(r, keep) ==
    LET q == reqs[r]
        token == generateToken([userId |-> q.row.id, username |-> q.row.username,
                                role |-> q.row.role], now)
    IN /\ q.route = "login" /\ q.pc = "update"
       /\ users' = UpdateLastLogin(q.row.id, q.loginAt)
       /\ reqs' = SetReq(r, Respond([q EXCEPT !.token = token], 200, "Login successful"))
       /\ held' = IF keep /\ Cardinality(held \cup {token}) <= MaxHeld
                  THEN held \cup {token} ELSE held
       /\ UNCHANGED <<now, rateLimitStore, calls, verdicts, profiles, checkups, qr, hashes, tx>>

(***************************************************************************)
(* Characters, and the express-validator chains of the admin-only routes.  *)
(***************************************************************************)
DigitChars == {"0", "1", "2", "3", "4", "5", "6", "7", "8", "9"}
LowerChars ==
    {"a", "b", "c", "d", "e", "f", "g", "h", "i", "j", "k", "l", "m",
     "n", "o", "p", "q", "r", "s", "t", "u", "v", "w", "x", "y", "z"}
UpperChars ==
    {"A", "B", "C", "D", "E", "F", "G", "H", "I", "J", "K", "L", "M",
     "N", "O", "P", "Q", "R", "S", "T", "U", "V", "W", "X", "Y", "Z"}

DigitValue(c) ==
    CASE c = "0" -> 0 [] c = "1" -> 1 [] c = "2" -> 2 [] c = "3" -> 3
      [] c = "4" -> 4 [] c = "5" -> 5 [] c = "6" -> 6 [] c = "7" -> 7
      [] c = "8" -> 8 [] c = "9" -> 9

\* The number that a sequence of digits denotes.
RECURSIVE ToInt(_)
ToInt(cs) ==
    IF cs = <<>> THEN 0
    ELSE 10 * ToInt(SubSeq(cs, 1, Len(cs) - 1)) + DigitValue(cs[Len(cs)])

\* The string of a sequence of characters.
RECURSIVE Join(_)
Join(cs) == IF cs = <<>> THEN "" ELSE Head(cs) \o Join(Tail(cs))

\* isInt({min}): an optional sign, then 0 or a digit string without a
\* leading zero, and the value at least min.
isInt(cs, min) ==
    LET ds == IF cs # <<>> /\ cs[1] \in {"+", "-"} THEN Tail(cs) ELSE cs
    IN /\ ds # <<>>
       /\ \A i \in 1..Len(ds) : ds[i] \in DigitChars
       /\ (Len(ds) > 1 => ds[1] # "0")
       /\ (IF cs[1] = "-" THEN 0 - ToInt(ds) ELSE ToInt(ds)) >= min

\* validateId: param('id').isInt({ min: 1 })
validateId(q) == isInt(q.id, 1)

\* validateUserRegistration: username of 3..50 word characters, password
\* of 6 or more characters with a lowercase letter, an uppercase letter and
\* a digit, posyandu_name of 3..100 characters (pin is optional and absent).
validateUserRegistration(q) ==
    LET u == q.body.username
        pw == q.body.password
        pn == q.body.posyandu_name
    IN /\ Len(u) >= 3 /\ Len(u) <= 50
       /\ \A i \in 1..Len(u) :
              u[i] \in LowerChars \cup UpperChars \cup DigitChars \cup {"_"}
       /\ Len(pw) >= 6
       /\ \E i \in 1..Len(pw) : pw[i] \in LowerChars
       /\ \E i \in 1..Len(pw) : pw[i] \in UpperChars
       /\ \E i \in 1..Len(pw) : pw[i] \in DigitChars
       /\ Len(pn) >= 3 /\ Len(pn) <= 100

(***************************************************************************)
(* JSON.  A text is a sequence of characters; a value is a record tagged   *)
(* with its type.  Numbers are integers and strings escape the quote and   *)
(* the backslash, which is what the texts of this model contain.           *)
(***************************************************************************)
JNull == [t |-> "null"]
JBool(b) == [t |-> "bool", v |-> b]
JNum(n) == [t |-> "num", v |-> n]
JStr(cs) == [t |-> "str", v |-> cs]
JArr(vs) == [t |-> "arr", v |-> vs]
\* An object is the sequence of its <<key, value>> members.
JObj(ms) == [t |-> "obj", v |-> ms]

\* The digits of a natural number.
RECURSIVE NatChars(_)
NatChars(n) ==
    LET d == CHOOSE c \in DigitChars : DigitValue(c) = n % 10
    IN IF n < 10 THEN <<d>> ELSE NatChars(n \div 10) \o <<d>>

\* A quoting that escapes nothing.
QuotedRaw(cs) == <<"\"">> \o cs \o <<"\"">>

\* The text of a string value: quoted, with quote and backslash escaped.
RECURSIVE Escaped(_)
Escaped(cs) ==
    IF cs = <<>> THEN <<>>
    ELSE (IF Head(cs) \in {"\"", "\\"} THEN <<"\\", Head(cs)>> ELSE <<Head(cs)>>)
             \o Escaped(Tail(cs))

Quoted(cs) == <<"\"">> \o Escaped(cs) \o <<"\"">>

\* JSON.stringify of a value; a member whose value is undefined is left
\* out of its object.
RECURSIVE JSON_stringify(_)
RECURSIVE StringifyMembers(_, _)
RECURSIVE StringifyElements(_)
StringifyMembers(ms, first) ==
    IF ms = <<>> THEN <<>>
    ELSE IF Head(ms)[2] = Undefined THEN StringifyMembers(Tail(ms), first)
    ELSE (IF first THEN <<>> ELSE <<",">>)
             \o Quoted(Head(ms)[1]) \o <<":">> \o JSON_stringify(Head(ms)[2])
             \o StringifyMembers(Tail(ms), FALSE)

StringifyElements(vs) ==
    IF vs = <<>> THEN <<>>
    ELSE JSON_stringify(Head(vs))
             \o (IF Len(vs) > 1 THEN <<",">> ELSE <<>>)
             \o StringifyElements(Tail(vs))

JSON_stringify(val) ==
    CASE val.t = "null" -> <<"n", "u", "l", "l">>
      [] val.t = "bool" -> IF val.v THEN <<"t", "r", "u", "e">>
                           ELSE <<"f", "a", "l", "s", "e">>
      [] val.t = "num" -> IF val.v < 0 THEN <<"-">> \o NatChars(0 - val.v)
                          ELSE NatChars(val.v)
      [] val.t = "str" -> Quoted(val.v)
      [] val.t = "arr" -> <<"[">> \o StringifyElements(val.v) \o <<"]">>
      [] val.t = "obj" -> <<"{">> \o StringifyMembers(val.v, TRUE) \o <<"}">>

\* The result of parsing from a position: the value and the position after
\* it, or a failure.
ParseFail == [ok |-> FALSE, v |-> Undefined, next |-> 0]
Parsed(val, next) == [ok |-> TRUE, v |-> val, next |-> next]

\* The character at a position, "" past the end.
At(cs, i) == IF i >= 1 /\ i <= Len(cs) THEN cs[i] ELSE ""

RECURSIVE SkipWs(_, _)
SkipWs(cs, i) == IF At(cs, i) = " " THEN SkipWs(cs, i + 1) ELSE i

\* The position after the digits that start at i.
RECURSIVE SkipDigits(_, _)
SkipDigits(cs, i) ==
    IF At(cs, i) \in DigitChars THEN SkipDigits(cs, i + 1) ELSE i

\* A string, from the position after its opening quote.
RECURSIVE ParseStringBody(_, _, _)
ParseStringBody(cs, i, acc) ==
    LET c == At(cs, i) IN
    IF c = "" THEN ParseFail
    ELSE IF c = "\"" THEN Parsed(JStr(acc), i + 1)
    ELSE IF c = "\\"
    THEN IF At(cs, i + 1) \in {"\"", "\\"}
         THEN ParseStringBody(cs, i + 2, Append(acc, At(cs, i + 1)))
         ELSE ParseFail
    ELSE ParseStringBody(cs, i + 1, Append(acc, c))

\* A number: an optional minus, then 0 or digits without a leading zero.
ParseNumber(cs, i) ==
    LET neg == At(cs, i) = "-"
        j == IF neg THEN i + 1 ELSE i
        k == IF At(cs, j) = "0" THEN j + 1 ELSE SkipDigits(cs, j)
        n == ToInt(SubSeq(cs, j, k - 1))
    IN IF k = j THEN ParseFail
       ELSE Parsed(JNum(IF neg THEN 0 - n ELSE n), k)

\* A literal name at a position.
ParseLiteral(cs, i, name, val) ==
    IF i + Len(name) - 1 <= Len(cs) /\ SubSeq(cs, i, i + Len(name) - 1) = name
    THEN Parsed(val, i + Len(name))
    ELSE ParseFail

RECURSIVE ParseValue(_, _)
RECURSIVE ParseElements(_, _, _)
RECURSIVE ParseMembers(_, _, _)

\* The elements of an array, from the position after "[" or after ",".
ParseElements(cs, i, acc) ==
    LET j == SkipWs(cs, i) IN
    IF At(cs, j) = "]" /\ acc = <<>> THEN Parsed(JArr(acc), j + 1)
    ELSE LET e == ParseValue(cs, j)
             k == SkipWs(cs, e.next)
         IN IF ~e.ok THEN ParseFail
            ELSE IF At(cs, k) = "," THEN ParseElements(cs, k + 1, Append(acc, e.v))
            ELSE IF At(cs, k) = "]" THEN Parsed(JArr(Append(acc, e.v)), k + 1)
            ELSE ParseFail

\* The members of an object, from the position after "{" or after ",".
ParseMembers(cs, i, acc) ==
    LET j == SkipWs(cs, i) IN
    IF At(cs, j) = "}" /\ acc = <<>> THEN Parsed(JObj(acc), j + 1)
    ELSE IF At(cs, j) # "\"" THEN ParseFail
    ELSE LET key == ParseStringBody(cs, j + 1, <<>>)
             c == SkipWs(cs, key.next)
             e == ParseValue(cs, c + 1)
             k == SkipWs(cs, e.next)
         IN IF ~key.ok \/ At(cs, c) # ":" THEN ParseFail
            ELSE IF ~e.ok THEN ParseFail
            ELSE IF At(cs, k) = ","
            THEN ParseMembers(cs, k + 1, Append(acc, <<key.v.v, e.v>>))
            ELSE IF At(cs, k) = "}"
            THEN Parsed(JObj(Append(acc, <<key.v.v, e.v>>)), k + 1)
            ELSE ParseFail

ParseValue(cs, i) ==
    LET j == SkipWs(cs, i)
        c == At(cs, j)
    IN CASE c = "{" -> ParseMembers(cs, j + 1, <<>>)
         [] c = "[" -> ParseElements(cs, j + 1, <<>>)
         [] c = "\"" -> ParseStringBody(cs, j + 1, <<>>)
         [] c = "-" \/ c \in DigitChars -> ParseNumber(cs, j)
         [] c = "t" -> ParseLiteral(cs, j, <<"t", "r", "u", "e">>, JBool(TRUE))
         [] c = "f" -> ParseLiteral(cs, j, <<"f", "a", "l", "s", "e">>, JBool(FALSE))
         [] c = "n" -> ParseLiteral(cs, j, <<"n", "u", "l", "l">>, JNull)
         [] OTHER -> ParseFail

\* JSON.parse(text): the value, or thrown (a SyntaxError) when the text is
\* not one JSON value with nothing but blanks around it.
JSON_parse(cs) ==
    LET r == ParseValue(cs, 1)
    IN IF r.ok /\ SkipWs(cs, r.next) = Len(cs) + 1
       THEN [thrown |-> FALSE, v |-> r.v]
       ELSE [thrown |-> TRUE, v |-> Undefined]

\* data.key: the value of the last member of that name; undefined for a
\* missing member and for a value that is not an object.
RECURSIVE LastMember(_, _, _)
LastMember(ms, key, default) ==
    IF ms = <<>> THEN default
    ELSE LastMember(Tail(ms), key, IF Head(ms)[1] = key THEN Head(ms)[2] ELSE default)

Get(val, key) == IF val.t = "obj" THEN LastMember(val.v, key, Undefined) ELSE Undefined

\* JavaScript truthiness.
Truthy(val) ==
    CASE val.t \in {"undefined", "null"} -> FALSE
      [] val.t = "bool" -> val.v
      [] val.t = "num" -> val.v # 0
      [] val.t = "str" -> val.v # <<>>
      [] OTHER -> TRUE

(***************************************************************************)
(* The QR code utilities: createProfileQRData, parseQRData and             *)
(* validateQRFormat.                                                       *)
(***************************************************************************)
K_type == <<"t", "y", "p", "e">>
K_id == <<"i", "d">>
K_name == <<"n", "a", "m", "e">>
K_timestamp == <<"t", "i", "m", "e", "s", "t", "a", "m", "p">>
K_app == <<"a", "p", "p">>
K_legacy == <<"l", "e", "g", "a", "c", "y">>
S_profile == <<"p", "r", "o", "f", "i", "l", "e">>
S_lansia_health ==
    <<"l", "a", "n", "s", "i", "a", "-", "h", "e", "a", "l", "t", "h">>
S_QR == <<"Q", "R">>

\* new Date().toISOString(): a text that names the instant.
toISOString(t) == <<"T">> \o NatChars(t) \o <<"Z">>

\* createProfileQRData(profileId, profileName) at clock t
createProfileQRData(profileId, profileName, t) ==
    JSON_stringify(JObj(<< <<K_type, JStr(S_profile)>>,
                           <<K_id, profileId>>,
                           <<K_name, profileName>>,
                           <<K_timestamp, JStr(toISOString(t))>>,
                           <<K_app, JStr(S_lansia_health)>> >>))

\* The pattern QR\d+ at the start of the text; with anchored, up to its
\* end.
MatchesLegacy(cs, anchored) ==
    /\ At(cs, 1) = "Q" /\ At(cs, 2) = "R"
    /\ SkipDigits(cs, 3) > 3
    /\ anchored => SkipDigits(cs, 3) = Len(cs) + 1

\* A legacy test that stops looking after the first digits.
LegacyParsePatternLoose(cs) == MatchesLegacy(cs, FALSE)

\* /^QR\d+$/.test(qrString)
LegacyParsePattern(cs) == MatchesLegacy(cs, TRUE)

\* /^QR\d+/.test(qrString)
LegacyValidatePattern(cs) == MatchesLegacy(cs, FALSE)

\* The position of the first occurrence of pat in cs at or after i, 0 if
\* there is none.
RECURSIVE IndexOf(_, _, _)
IndexOf(cs, pat, i) ==
    IF i + Len(pat) - 1 > Len(cs) THEN 0
    ELSE IF SubSeq(cs, i, i + Len(pat) - 1) = pat THEN i
    ELSE IndexOf(cs, pat, i + 1)

\* A text that is neither JSON nor a legacy identifier.
OtherNotAPayload ==
    <<"n", "o", "t", " ", "a", " ", "p", "a", "y", "l", "o", "a", "d">>

\* cs.replace(pat, rep): the first occurrence replaced.
Replace(cs, pat, rep) ==
    LET i == IndexOf(cs, pat, 1)
    IN IF i = 0 THEN cs
       ELSE SubSeq(cs, 1, i - 1) \o rep \o SubSeq(cs, i + Len(pat), Len(cs))

\* val === 'text' for a string literal
IsString(val, cs) == val.t = "str" /\ val.v = cs

\* The test of the structure: !data.type || !data.id || data.app !==
\* 'lansia-health', negated.
StructureOk(data) ==
    /\ Truthy(Get(data, K_type))
    /\ Truthy(Get(data, K_id))
    /\ IsString(Get(data, K_app), S_lansia_health)

\* parseQRData(qrString).  Reading a property of null throws inside the
\* try, so that text also takes the catch branch.
parseQRData(qrString) ==
    LET p == JSON_parse(qrString) IN
    IF ~p.thrown /\ p.v.t # "null"
    THEN IF ~StructureOk(p.v)
         THEN [success |-> FALSE, data |-> Undefined,
               error |-> "Invalid QR code format"]
         ELSE [success |-> TRUE, data |-> p.v, error |-> ""]
    ELSE IF LegacyParsePattern(qrString)
         THEN [success |-> TRUE,
               data |-> JObj(<< <<K_type, JStr(S_profile)>>,
                                <<K_id, JStr(Replace(qrString, S_QR, <<>>))>>,
                                <<K_legacy, JBool(TRUE)>> >>),
               error |-> ""]
         ELSE [success |-> FALSE, data |-> Undefined,
               error |-> "Invalid QR code data"]

\* validateQRFormat(qrString) for a string argument: the value returned,
\* which callers read as true or false.
validateQRFormat(qrString) ==
    LET p == JSON_parse(qrString) IN
    IF qrString = <<>> THEN JBool(FALSE)
    ELSE IF ~p.thrown /\ p.v.t # "null"
    THEN IF ~Truthy(Get(p.v, K_type)) THEN Get(p.v, K_type)
         ELSE IF ~Truthy(Get(p.v, K_id)) THEN Get(p.v, K_id)
         ELSE JBool(IsString(Get(p.v, K_app), S_lansia_health))
    ELSE JBool(LegacyValidatePattern(qrString))

(***************************************************************************)
(* POST /api/profiles/scan, up to its first query.                         *)
(***************************************************************************)
\* qr_data.startsWith(prefix)
startsWith(cs, prefix) ==
    Len(cs) >= Len(prefix) /\ SubSeq(cs, 1, Len(prefix)) = prefix

\* The handler of the scan route up to its first await: qr_data is read
\* with JSON.parse and the id member of the value is the profile id; when
\* that throws, a text that starts with "QR" gives the rest of the text as
\* the profile id.
ScanDecode(q) ==
    IF ~Truthy(q.qr_data)
    THEN Respond(q, 400, "QR data is required")
    ELSE LET p == JSON_parse(q.qr_data.v)
         IN IF ~p.thrown /\ p.v.t # "null"
            THEN [q EXCEPT !.profileId = Get(p.v, K_id), !.pc = "scanProfile"]
            ELSE IF startsWith(q.qr_data.v, S_QR)
            THEN [q EXCEPT !.profileId = JStr(Replace(q.qr_data.v, S_QR, <<>>)),
                           !.pc = "scanProfile"]
            ELSE Respond(q, 400, "Invalid QR code format")

(***************************************************************************)
(* POST /api/checkups and PUT /api/checkups/:id, as far as gula_darah      *)
(* goes: the other members of the bodies are valid ones.                   *)
(***************************************************************************)
CheckupRoutes == {"create-checkup", "update-checkup"}

\* The text that express-validator reads a member of the body as.
ValueChars(val) ==
    CASE val.t = "num" -> NatChars(val.v)
      [] val.t = "str" -> val.v
      [] OTHER -> <<>>

\* The number that JavaScript compares a number or a string of digits as,
\* and that MySQL stores it as in an INT column.
ToNumber(val) ==
    CASE val.t = "num" -> val.v
      [] val.t = "str" -> ToInt(val.v)
      [] OTHER -> 0

\* validateCheckupCreation: body('profile_id').isInt({ min: 1 }),
\* body('gula_darah').isInt({ min: 50, max: 500 })
validateCheckupCreation(q) ==
    /\ isInt(ValueChars(q.profileId), 1)
    /\ isInt(ValueChars(q.gula_darah), 50)
    /\ ToInt(ValueChars(q.gula_darah)) <= 500

\* if (updateData.gula_darah && (updateData.gula_darah < 50 ||
\*     updateData.gula_darah > 500))
GulaOutOfRange(val) ==
    Truthy(val) /\ (ToNumber(val) < 50 \/ ToNumber(val) > 500)

\* The validators of the two routes and the handler of PUT up to its
\* first await.
CheckupValidate(q) ==
    IF q.route = "create-checkup"
    THEN IF ~validateCheckupCreation(q)
         THEN Respond(q, 400, "Validation failed")
         ELSE [q EXCEPT !.pc = "checkupProfile"]
    ELSE IF ~validateId(q)
    THEN Respond(q, 400, "Validation failed")
    ELSE IF q.gula_darah.t = "undefined"
    THEN Respond(q, 400, "No valid fields to update")
    ELSE IF GulaOutOfRange(q.gula_darah)
    THEN Respond(q, 400, "Blood sugar must be between 50 and 500 mg/dL")
    ELSE [q EXCEPT !.pc = "checkupUpdate"]

(***************************************************************************)
(* validatePIN, as the middleware that follows authenticate on a route.    *)
(***************************************************************************)
\* The pin column of the users table, which no route of this model writes.
StoredPin(id) ==
    CASE id = 1 -> "123456"
      [] id = 2 -> "654321"
      [] OTHER -> "000000"

\* const { userId } = req.user: the member of that name of the principal,
\* undefined if it has none.
UserIdMember(user) ==
    IF "userId" \in DOMAIN user THEN JNum(user.userId) ELSE Undefined

\* The id that validatePIN looks the PIN up by.
PinUserId(user) == UserIdMember(user)

\* validatePIN up to its lookup: 400 without a pin, else the SELECT of the
\* pin is issued.
PinRequired(q) ==
    IF q.pin = ""
    THEN Respond(q, 400, "PIN required")
    ELSE [q EXCEPT !.pinUserId = PinUserId(q.user), !.pc = "pinLookup"]

(***************************************************************************)
(* The admin-only routes: DELETE /api/profiles/:id, DELETE                 *)
(* /api/checkups/:id and POST /api/auth/register.  Each runs authenticate, *)
(* then its validators, then the handler, whose first statement is the     *)
(* role check.                                                             *)
(***************************************************************************)
DeleteRoutes == {"delete-profile", "delete-checkup"}
AdminRoutes == DeleteRoutes \cup {"register"}

\* A role check that lets every known role through.
IsAdminAnyRole(user) == user.role \in {"admin", "kader"}

\* req.user.role !== 'admin', negated
IsAdmin(user) == user.role = "admin"

ForbiddenMessage(route) ==
    CASE route = "delete-profile" -> "Only admin can delete profiles"
      [] route = "delete-checkup" -> "Only admin can delete checkups"
      [] route = "register" -> "Only admin can register new users"

\* The validators of a route accept the request.
RouteValid(q) ==
    IF q.route = "register" THEN validateUserRegistration(q) ELSE validateId(q)

\* What runs when authenticate calls next(): the scan route reads its
\* qr_data; a route without validators
\* and checks answers at once; an admin-only route runs its validators
\* (400), then the role check (403), then issues its first query.
RouteNext(q) ==
    IF q.route = "scan"
    THEN ScanDecode(q)
    ELSE IF q.route = "pin"
    THEN PinRequired(q)
    ELSE IF q.route \in CheckupRoutes
    THEN CheckupValidate(q)
    ELSE IF q.route \notin AdminRoutes
    THEN Respond(q, 200, "Token is valid")
    ELSE IF ~RouteValid(q)
    THEN Respond(q, 400, "Validation failed")
    ELSE IF ~IsAdmin(q.user)
    THEN Respond(q, 403, ForbiddenMessage(q.route))
    ELSE [q EXCEPT !.pc = "exists"]

(***************************************************************************)
(* authenticate, on POST /api/auth/verify-token.                           *)
(***************************************************************************)
\* An authenticate whose 401 tells what jwt.verify found.
AuthenticateHeaderLeaky(q, t) ==
    IF ~q.authorization.present \/ q.authorization.scheme # "Bearer"
    THEN Respond(q, 401, "Access token required")
    ELSE LET r == jwt_verify(q.authorization.token, JWT_SECRET, t)
         IN IF ~r.ok
            THEN Respond(q, 401, r.error)
            ELSE [q EXCEPT !.decoded = r.payload, !.pc = "authLookup"]

\* The header check and the token verification, up to the user lookup.
AuthenticateHeader(q, t) ==
    IF ~q.authorization.present \/ q.authorization.scheme # "Bearer"
    THEN Respond(q, 401, "Access token required")
    ELSE LET decoded == verifyToken(q.authorization.token, t)
         IN IF decoded.null
            THEN Respond(q, 401, "Invalid or expired token")
            ELSE [q EXCEPT !.decoded = decoded.claims, !.pc = "authLookup"]

\* An authenticate that trusts the token and skips the active check.
AuthenticateUserNoActiveCheck(q, userResult) ==
    IF userResult.thrown
    THEN Respond(q, 500, "Authentication failed")
    ELSE IF ~userResult.success
    THEN Respond(q, 401, "User not found or inactive")
    ELSE RouteNext([q EXCEPT !.row = userResult.data, !.user = userResult.data])

\* An authenticate that attaches the role of the token.
AuthenticateUserTokenRole(q, userResult) ==
    IF userResult.thrown
    THEN Respond(q, 500, "Authentication failed")
    ELSE IF ~userResult.success
    THEN Respond(q, 401, "User not found or inactive")
    ELSE IF ~userResult.data.is_active
    THEN Respond([q EXCEPT !.row = userResult.data],
                 401, "User not found or inactive")
    ELSE RouteNext([q EXCEPT !.row = userResult.data,
                             !.user = [userResult.data EXCEPT
                                          !.role = q.decoded.role]])

\* The result of the lookup: 401, or req.user is set and next() runs the
\* rest of the route (verify-token answers 200 with req.user).  The row that the lookup
\* returned, if any, is remembered in q.row.
AuthenticateUser(q, userResult) ==
    IF userResult.thrown
    THEN Respond(q, 500, "Authentication failed")
    ELSE IF ~userResult.success
    THEN Respond(q, 401, "User not found or inactive")
    ELSE IF ~userResult.data.is_active
    THEN Respond([q EXCEPT !.row = userResult.data],
                 401, "User not found or inactive")
    ELSE RouteNext([q EXCEPT !.row = userResult.data, !.user = userResult.data])

ReceiveVerifyToken(r, ip, header) ==
    /\ Free(r)
    /\ reqs' = SetReq(r, AuthenticateHeader(
                  [Idle EXCEPT !.route = "verify-token", !.ip = ip, !.at = now,
                               !.authorization = header], now))
    /\ UNCHANGED <<now, rateLimitStore, calls, users, held, verdicts, profiles, checkups, qr, hashes, tx>>

\* A lookup that also stamps the row it reads.
AuthLookupTouching(r, fails) ==
    LET q == reqs[r]
        userResult == getOne(executeQuery(IdsById(q.decoded.userId), fails))
    IN /\ q.pc = "authLookup"
       /\ reqs' = SetReq(r, AuthenticateUser(
                     [q EXCEPT !.lookedUp = TRUE, !.dbFailed = fails], userResult))
       /\ users' = UpdateLastLogin(q.decoded.userId, now)
       /\ UNCHANGED <<now, rateLimitStore, calls, held, verdicts, profiles, checkups, qr, hashes, tx>>

\* getOne('SELECT id, username, role, is_active FROM users WHERE id = ?')
\* returns.
AuthLookup(r, fails) ==
    LET q == reqs[r]
        userResult == getOne(executeQuery(IdsById(q.decoded.userId), fails))
    IN /\ q.pc = "authLookup"
       /\ reqs' = SetReq(r, AuthenticateUser(
                     [q EXCEPT !.lookedUp = TRUE, !.dbFailed = fails], userResult))
       /\ UNCHANGED <<now, rateLimitStore, calls, users, held, verdicts, profiles, checkups, qr, hashes, tx>>

(***************************************************************************)
(* The handlers of the admin-only routes, from one await to the next.      *)
(***************************************************************************)
\* An admin-only request arrives with its Authorization header, its :id
\* parameter and its body; authenticate runs up to its user lookup.
ReceiveAdminRoute(r, route, ip, header, id, body) ==
    /\ Free(r)
    /\ reqs' = SetReq(r, AuthenticateHeader(
                  [Idle EXCEPT !.route = route, !.ip = ip, !.at = now,
                               !.authorization = header, !.id = id,
                               !.body = body], now))
    /\ UNCHANGED <<now, rateLimitStore, calls, users, held, verdicts, profiles, checkups, qr, hashes, tx>>

\* The table a delete route works on.
TableOf(route) == IF route = "delete-profile" THEN profiles ELSE checkups

\* WHERE id = ? with the :id parameter, which MySQL reads as a number.
IdsByParam(table, id) == {i \in DOMAIN table : i = ToInt(id)}

NotFoundMessage(route) ==
    IF route = "delete-profile" THEN "Profile not found" ELSE "Checkup not found"

DeleteFailedMessage(route) ==
    IF route = "delete-profile" THEN "Failed to delete profile"
    ELSE "Failed to delete checkup"

DeletedMessage(route) ==
    IF route = "delete-profile" THEN "Profile deleted successfully"
    ELSE "Checkup deleted successfully"

\* getOne('SELECT id ... WHERE id = ?') of a delete route returns: 404, or
\* the delete is issued.
DeleteExists(r, fails) ==
    LET q == reqs[r]
        result == getOne(executeSelect(TableOf(q.route),
                                       IdsByParam(TableOf(q.route), q.id), fails))
    IN /\ q.route \in DeleteRoutes /\ q.pc = "exists"
       /\ reqs' = SetReq(r, IF ~result.success
                            THEN Respond(q, 404, NotFoundMessage(q.route))
                            ELSE [q EXCEPT !.pc = "delete"])
       /\ UNCHANGED <<now, rateLimitStore, calls, users, held, verdicts, profiles, checkups, qr, hashes, tx>>

\* A table without the rows of some ids.
Without(table, ids) == [i \in DOMAIN table \ ids |-> table[i]]

\* deleteRecord(table, 'id = ?') returns: 500 if the query failed, 200
\* otherwise.  The checkups of a deleted profile go with it (ON DELETE
\* CASCADE).
DeleteRecord(r, fails) ==
    LET q == reqs[r]
        ids == IdsByParam(TableOf(q.route), q.id)
    IN /\ q.route \in DeleteRoutes /\ q.pc = "delete"
       /\ IF fails
          THEN /\ reqs' = SetReq(r, Respond(q, 500, DeleteFailedMessage(q.route)))
               /\ UNCHANGED <<profiles, checkups>>
          ELSE /\ reqs' = SetReq(r, Respond([q EXCEPT !.wrote = TRUE], 200,
                                            DeletedMessage(q.route)))
               /\ IF q.route = "delete-profile"
                  THEN /\ profiles' = Without(profiles, ids)
                       /\ checkups' = Without(checkups,
                              {c \in DOMAIN checkups : checkups[c].profile_id \in ids})
                  ELSE /\ checkups' = Without(checkups, ids)
                       /\ UNCHANGED profiles
       /\ UNCHANGED <<now, rateLimitStore, calls, users, held, verdicts, qr, hashes, tx>>

\* getOne('SELECT id FROM users WHERE username = ?') of register returns:
\* 400 if a row came back, else hashPassword is called.
RegisterExists(r, fails) ==
    LET q == reqs[r]
        existingUser ==
            getOne(executeQuery(IdsByUsername(Join(q.body.username)), fails))
    IN /\ q.route = "register" /\ q.pc = "exists"
       /\ reqs' = SetReq(r, IF existingUser.success
                            THEN Respond(q, 400, "Username already exists")
                            ELSE [q EXCEPT !.pc = "hash"])
       /\ UNCHANGED <<now, rateLimitStore, calls, users, held, verdicts, profiles, checkups, qr, hashes, tx>>

Salts == {"salt1", "salt2"}

\* hashPassword returns with the salt it drew; the insert is issued.
RegisterHash(r, salt) ==
    LET q == reqs[r]
    IN /\ q.route = "register" /\ q.pc = "hash"
       /\ reqs' = SetReq(r, [q EXCEPT !.pc = "insert",
                                      !.hashed = hashPassword(Join(q.body.password), salt)])
       /\ UNCHANGED <<now, rateLimitStore, calls, users, held, verdicts, profiles, checkups, qr, hashes, tx>>

\* The id that AUTO_INCREMENT gives the next row.
NextId(table) ==
    1 + (CHOOSE m \in DOMAIN table \cup {0} :
            \A i \in DOMAIN table \cup {0} : i <= m)

\* The row that register inserts: role defaults to 'kader'.
RegisteredRow(q, id) ==
    [id |-> id, username |-> Join(q.body.username), password |-> q.hashed,
     role |-> IF q.body.role = "" THEN "kader" ELSE q.body.role,
     is_active |-> TRUE, last_login |-> -1]

\* insert('users', userData) returns: 500 if the query failed, else 201.
RegisterInsert(r, fails) ==
    LET q == reqs[r]
        id == NextId(users)
    IN /\ q.route = "register" /\ q.pc = "insert"
       /\ IF fails
          THEN /\ reqs' = SetReq(r, Respond(q, 500, "Failed to create user"))
               /\ UNCHANGED users
          ELSE /\ reqs' = SetReq(r, Respond([q EXCEPT !.wrote = TRUE], 201,
                                            "User registered successfully"))
               /\ users' = [i \in DOMAIN users \cup {id} |->
                               IF i = id THEN RegisteredRow(q, id) ELSE users[i]]
       /\ UNCHANGED <<now, rateLimitStore, calls, held, verdicts, profiles, checkups, qr, hashes, tx>>

(***************************************************************************)
(* The handler of POST /api/profiles/scan, from one await to the next.     *)
(***************************************************************************)
\* A scan request arrives with its Authorization header and the qr_data
\* member of its body; authenticate runs up to its user lookup.
ReceiveScan(r, ip, header, qr_data) ==
    /\ Free(r)
    /\ reqs' = SetReq(r, AuthenticateHeader(
                  [Idle EXCEPT !.route = "scan", !.ip = ip, !.at = now,
                               !.authorization = header,
                               !.qr_data = qr_data], now))
    /\ UNCHANGED <<now, rateLimitStore, calls, users, held, verdicts, profiles, checkups, qr, hashes, tx>>

\* The digits that a text starts with.
RECURSIVE LeadingDigits(_)
LeadingDigits(cs) ==
    IF cs # <<>> /\ Head(cs) \in DigitChars
    THEN <<Head(cs)>> \o LeadingDigits(Tail(cs))
    ELSE <<>>

\* pool.execute refuses a parameter that is undefined, and executeQuery
\* turns the error into {success: false}.
BindFails(val) == val.t = "undefined"

\* WHERE id = ? (or profile_id = ?) with a parameter of the request: a
\* number matches the row of that id, a text is read by MySQL as the
\* number it starts with (0 if none), anything else matches no row.
IdsByValue(ids, val) ==
    CASE val.t = "num" -> {i \in ids : i = val.v}
      [] val.t = "str" -> {i \in ids : i = ToInt(LeadingDigits(val.v))}
      [] OTHER -> {}

\* getOne('SELECT * FROM profiles WHERE id = ?') returns: 404, or the
\* checkups are asked for.
ScanProfile(r, fails) ==
    LET q == reqs[r]
        profileResult ==
            getOne(executeSelect(profiles,
                                 IdsByValue(DOMAIN profiles, q.profileId),
                                 fails \/ BindFails(q.profileId)))
    IN /\ q.route = "scan" /\ q.pc = "scanProfile"
       /\ reqs' = SetReq(r, IF ~profileResult.success
                            THEN Respond(q, 404, "Profile not found")
                            ELSE [q EXCEPT !.profile = profileResult.data.id,
                                           !.pc = "scanCheckups"])
       /\ UNCHANGED <<now, rateLimitStore, calls, users, held, verdicts, profiles, checkups, qr, hashes, tx>>

\* getMany('SELECT * FROM checkups WHERE profile_id = ? ...') returns: 200
\* with the profile, and with no checkups if the query failed.
ScanCheckups(r, fails) ==
    LET q == reqs[r]
    IN /\ q.route = "scan" /\ q.pc = "scanCheckups"
       /\ reqs' = SetReq(r, Respond(q, 200, ""))
       /\ UNCHANGED <<now, rateLimitStore, calls, users, held, verdicts, profiles, checkups, qr, hashes, tx>>

(***************************************************************************)
(* The handlers of the checkup routes, from one await to the next.         *)
(***************************************************************************)
ReceiveCheckup(r, route, ip, header, id, profile_id, gula_darah) ==
    /\ Free(r)
    /\ reqs' = SetReq(r, AuthenticateHeader(
                  [Idle EXCEPT !.route = route, !.ip = ip, !.at = now,
                               !.authorization = header, !.id = id,
                               !.profileId = profile_id,
                               !.gula_darah = gula_darah], now))
    /\ UNCHANGED <<now, rateLimitStore, calls, users, held, verdicts, profiles, checkups, qr, hashes, tx>>

\* getOne('SELECT id, nama FROM profiles WHERE id = ?', [profile_id])
\* returns: 404 if there is no such profile.
CheckupProfile(r, fails) ==
    LET q == reqs[r]
        profileResult ==
            getOne(executeSelect(profiles,
                                 IdsByValue(DOMAIN profiles, q.profileId), fails))
    IN /\ q.route = "create-checkup" /\ q.pc = "checkupProfile"
       /\ reqs' = SetReq(r, IF ~profileResult.success
                            THEN Respond([q EXCEPT !.dbFailed = fails], 404,
                                         "Profile not found")
                            ELSE [q EXCEPT !.profile = profileResult.data.id,
                                           !.pc = "checkupInsert"])
       /\ UNCHANGED <<now, rateLimitStore, calls, users, held, verdicts, profiles, checkups, qr, hashes, tx>>

\* insert('checkups', checkupData) returns: 500 if the query failed, else
\* 201.
CheckupInsert(r, fails) ==
    LET q == reqs[r]
    IN /\ q.route = "create-checkup" /\ q.pc = "checkupInsert"
       /\ IF fails
          THEN /\ reqs' = SetReq(r, Respond([q EXCEPT !.dbFailed = TRUE], 500,
                                            "Failed to create checkup"))
               /\ UNCHANGED checkups
          ELSE /\ reqs' = SetReq(r, Respond([q EXCEPT !.wrote = TRUE], 201,
                                            "Checkup created successfully"))
               /\ checkups' =
                      [i \in DOMAIN checkups \cup {NextId(checkups)} |->
                          IF i = NextId(checkups)
                          THEN [id |-> i, profile_id |-> q.profile,
                                gula_darah |-> ToNumber(q.gula_darah)]
                          ELSE checkups[i]]
       /\ UNCHANGED <<now, rateLimitStore, calls, users, held, verdicts, profiles, qr, hashes, tx>>

\* update('checkups', updateData, 'id = ?', [checkupId]) returns: 500 if
\* the query failed, else 200, whether or not a row matched.
CheckupUpdate(r, fails) ==
    LET q == reqs[r]
        ids == IdsByParam(checkups, q.id)
    IN /\ q.route = "update-checkup" /\ q.pc = "checkupUpdate"
       /\ IF fails
          THEN /\ reqs' = SetReq(r, Respond([q EXCEPT !.dbFailed = TRUE], 500,
                                            "Failed to update checkup"))
               /\ UNCHANGED checkups
          ELSE /\ reqs' = SetReq(r, Respond([q EXCEPT !.wrote = TRUE], 200,
                                            "Checkup updated successfully"))
               /\ checkups' = [i \in DOMAIN checkups |->
                                 IF i \in ids
                                 THEN [checkups[i] EXCEPT
                                          !.gula_darah = ToNumber(q.gula_darah)]
                                 ELSE checkups[i]]
       /\ UNCHANGED <<now, rateLimitStore, calls, users, held, verdicts, profiles, qr, hashes, tx>>

(***************************************************************************)
(* A route guarded by authenticate and validatePIN.                        *)
(***************************************************************************)
ReceivePin(r, ip, header, pin) ==
    /\ Free(r)
    /\ reqs' = SetReq(r, AuthenticateHeader(
                  [Idle EXCEPT !.route = "pin", !.ip = ip, !.at = now,
                               !.authorization = header, !.pin = pin], now))
    /\ UNCHANGED <<now, rateLimitStore, calls, users, held, verdicts, profiles, checkups, qr, hashes, tx>>

\* getOne('SELECT pin FROM users WHERE id = ?', [userId]) returns: 401 if
\* no row came back or its pin is not the pin of the body, else next().
PinLookup(r, fails) ==
    LET q == reqs[r]
        userResult ==
            getOne(executeSelect(users, IdsByValue(DOMAIN users, q.pinUserId),
                                 fails \/ BindFails(q.pinUserId)))
    IN /\ q.route = "pin" /\ q.pc = "pinLookup"
       /\ reqs' = SetReq(r, [(IF ~userResult.success
                                \/ StoredPin(userResult.data.id) # q.pin
                              THEN Respond(q, 401, "Invalid PIN")
                              ELSE Respond(q, 200, "next"))
                             EXCEPT !.dbFailed = fails])
       /\ UNCHANGED <<now, rateLimitStore, calls, users, held, verdicts, profiles, checkups, qr, hashes, tx>>

(***************************************************************************)
(* transaction(callback) of config/database.js, with the callback of POST  *)
(* /api/profiles: insert the profile, set its qr_code, insert the initial  *)
(* checkup if one was given.  Each await is a step; each of them may       *)
(* throw.  What the callback writes is kept apart from the tables until    *)
(* the commit.                                                             *)
(***************************************************************************)
\* No transaction has been started.
NoTx ==
    [pc |-> "idle", nama |-> "", withCheckup |-> FALSE, acquired |-> FALSE,
     released |-> 0, statements |-> 0, returned |-> FALSE, threw |-> "",
     newProfiles |-> <<>>, newCheckups |-> <<>>, committed |-> FALSE,
     rolledBack |-> FALSE, result |-> "none"]

\* A table with rows added under their ids.
WithRows(table, rows) ==
    [i \in DOMAIN table \cup {rows[k].id : k \in 1..Len(rows)} |->
        IF \E k \in 1..Len(rows) : rows[k].id = i
        THEN rows[CHOOSE k \in 1..Len(rows) : rows[k].id = i]
        ELSE table[i]]

\* await pool.getConnection(): a throw here is outside the try, so
\* transaction rejects with no connection held.
TxGetConnection(nama, withCheckup, fails) ==
    /\ tx.pc \in {"idle", "done"}
    /\ tx' = IF fails
             THEN [NoTx EXCEPT !.pc = "done", !.nama = nama,
                               !.withCheckup = withCheckup, !.result = "rejected"]
             ELSE [NoTx EXCEPT !.pc = "begin", !.nama = nama,
                               !.withCheckup = withCheckup, !.acquired = TRUE]
    /\ UNCHANGED <<now, rateLimitStore, calls, users, reqs, held, verdicts, profiles, checkups, qr, hashes>>

\* await connection.beginTransaction()
TxBegin(fails) ==
    /\ tx.pc = "begin"
    /\ tx' = IF fails
             THEN [tx EXCEPT !.threw = "begin", !.pc = "rollback"]
             ELSE [tx EXCEPT !.pc = "callback"]
    /\ UNCHANGED <<now, rateLimitStore, calls, users, reqs, held, verdicts, profiles, checkups, qr, hashes>>

\* The number of statements the callback executes.
CallbackLength == IF tx.withCheckup THEN 3 ELSE 2

\* One await connection.execute(...) of the callback: the INSERT of the
\* profile, the UPDATE of its qr_code, the INSERT of the checkup.  After
\* the last one the callback returns.
TxStatement(fails) ==
    /\ tx.pc = "callback"
    /\ tx' = IF fails
             THEN [tx EXCEPT !.threw = "callback", !.pc = "rollback"]
             ELSE LET n == tx.statements + 1
                      id == NextId(profiles)
                      t1 == [tx EXCEPT !.statements = n]
                      t2 == IF n = 1
                            THEN [t1 EXCEPT !.newProfiles =
                                     <<[id |-> id, nama |-> tx.nama]>>]
                            ELSE IF n = 3
                            THEN [t1 EXCEPT !.newCheckups =
                                     <<[id |-> NextId(checkups), profile_id |-> id,
                                       gula_darah |-> 120]>>]
                            ELSE t1
                  IN IF n = CallbackLength
                     THEN [t2 EXCEPT !.returned = TRUE, !.pc = "commit"]
                     ELSE t2
    /\ UNCHANGED <<now, rateLimitStore, calls, users, reqs, held, verdicts, profiles, checkups, qr, hashes>>

\* await connection.commit(): what the callback wrote reaches the tables,
\* or the commit throws and it does not.
TxCommit(fails) ==
    /\ tx.pc = "commit"
    /\ IF fails
       THEN /\ tx' = [tx EXCEPT !.threw = "commit", !.pc = "rollback"]
            /\ UNCHANGED <<profiles, checkups>>
       ELSE /\ tx' = [tx EXCEPT !.committed = TRUE, !.result = "success",
                                !.pc = "release"]
            /\ profiles' = WithRows(profiles, tx.newProfiles)
            /\ checkups' = WithRows(checkups, tx.newCheckups)
    /\ UNCHANGED <<now, rateLimitStore, calls, users, reqs, held, verdicts, qr, hashes>>

\* await connection.rollback() in the catch block: the writes are dropped
\* and {success: false} is the result; if the rollback throws, the error
\* leaves the catch block and transaction rejects.
TxRollback(fails) ==
    /\ tx.pc = "rollback"
    /\ tx' = IF fails
             THEN [tx EXCEPT !.result = "rejected", !.pc = "release"]
             ELSE [tx EXCEPT !.rolledBack = TRUE, !.result = "failure",
                             !.newProfiles = <<>>, !.newCheckups = <<>>,
                             !.pc = "release"]
    /\ UNCHANGED <<now, rateLimitStore, calls, users, reqs, held, verdicts, profiles, checkups, qr, hashes>>

\* finally { connection.release() }
TxRelease ==
    /\ tx.pc = "release"
    /\ tx' = [tx EXCEPT !.released = @ + 1, !.pc = "done"]
    /\ UNCHANGED <<now, rateLimitStore, calls, users, reqs, held, verdicts, profiles, checkups, qr, hashes>>

(***************************************************************************)
(* Specification of the limiter alone: calls at non-decreasing times.      *)
(***************************************************************************)
EmptyMap == [k \in {} |-> <<>>]

\* The seeded accounts: the administrator, the kader account that
\* scripts/add-user creates, and an account that has been deactivated.
InitUsers ==
    [i \in 1..3 |->
        CASE i = 1 -> Row(1, "admin", "admin123", "admin", TRUE)
          [] i = 2 -> Row(2, "vicky1", "vicky123", "kader", TRUE)
          [] i = 3 -> Row(3, "kader2", "kader123", "kader", FALSE)]

\* No QR text has been handled.
NoQR ==
    [text |-> <<>>, encoded |-> FALSE, id |-> Undefined, name |-> Undefined,
     parsed |-> [success |-> FALSE, data |-> Undefined, error |-> ""],
     valid |-> Undefined, done |-> FALSE]

\* No password has been hashed or compared.
NoHashes ==
    [made |-> <<>>, password |-> "", against |-> 0, result |-> FALSE,
     done |-> FALSE]

\* Two profiles, each with one checkup.
InitProfiles ==
    [i \in 1..2 |-> [id |-> i, nama |-> IF i = 1 THEN "Siti" ELSE "Budi"]]

InitCheckups ==
    [i \in 1..2 |-> [id |-> i, profile_id |-> i,
                     gula_darah |-> IF i = 1 THEN 120 ELSE 95]]

Init ==
    /\ now = 0
    /\ qr = NoQR
    /\ hashes = NoHashes
    /\ tx = NoTx
    /\ profiles = InitProfiles
    /\ checkups = InitCheckups
    /\ rateLimitStore = EmptyMap
    /\ calls = EmptyMap
    /\ users = InitUsers
    /\ reqs = [r \in Reqs |-> Idle]
    /\ held = {}
    /\ verdicts = NoVerdicts

LimiterInit == Init

\* Time passes.
Tick(step, limit) ==
    /\ now + step <= limit
    /\ now' = now + step
    /\ UNCHANGED <<rateLimitStore, calls, users, reqs, held, verdicts, profiles, checkups, qr, hashes, tx>>

LimiterCall ==
    /\ TotalCalls < MaxCalls
    /\ \E ip \in IPs : sensitiveOperationLimit(RateLimitKey(ip, NoUser))
    /\ UNCHANGED <<now, users, reqs, held, verdicts, profiles, checkups, qr, hashes, tx>>

LimiterNext == Tick(TickMs, MaxTicks * TickMs) \/ LimiterCall

SpecLimiter == LimiterInit /\ [][LimiterNext]_vars

(***************************************************************************)
(* Specification of the login route: requests handled concurrently, each   *)
(* advancing from one await to the next.                                   *)
(***************************************************************************)
LoginWindows == 1
LoginIPs == {"10.0.0.1"}
LoginBodies ==
    { <<"admin", "admin123">>, <<"admin", "wrong">>,
      <<"kader2", "kader123">>,
      <<"nobody", "wrong">>, <<"", "wrong">> }

Next ==
    \/ Tick(windowMs, LoginWindows * windowMs)
    \/ \E r \in Reqs, ip \in LoginIPs, b \in LoginBodies :
           LoginsBelow(MaxLogins) /\ ReceiveLogin(r, ip, b[1], b[2])
    \/ \E r \in Reqs : LoginLimit(r)
    \/ \E r \in Reqs, fails \in BOOLEAN : LoginLookup(r, fails)
    \/ \E r \in Reqs : LoginCompare(r)
    \/ \E r \in Reqs : LoginUpdate(r, FALSE)

Spec == Init /\ [][Next]_vars

(***************************************************************************)
(* Properties of the limiter.                                              *)
(***************************************************************************)
\* Indices of the admitted calls of history c whose timestamp lies in the
\* trailing interval (t - windowMs, t].
AdmittedInWindow(c, t) ==
    {i \in 1..Len(c) : c[i].next /\ c[i].at <= t /\ t - c[i].at < windowMs}

\* Call s of history c finds no live attempt: every earlier admitted call
\* is a full window or more in the past.
StartsFresh(c, s) ==
    \A j \in 1..(s - 1) : c[j].next => c[s].at - c[j].at >= windowMs

C2_SlidingWindowBound ==
    \A k \in DOMAIN calls :
        /\ \A t \in Times :
               Cardinality(AdmittedInWindow(calls[k], t)) <= maxAttempts
        /\ Len(recentAttempts(k, now)) =
               Cardinality(AdmittedInWindow(calls[k], now))

\* Attempts of one key that expire at two different times: at the current
\* time an older admitted attempt is no longer counted while a younger one,
\* admitted before the older one expired, still is.
C2_Witness ==
    \E k \in DOMAIN calls :
        LET c == calls[k] IN
        \E i, j \in 1..Len(c) :
            /\ c[i].next /\ c[j].next
            /\ c[i].at < c[j].at
            /\ c[j].at - c[i].at < windowMs
            /\ now - c[i].at >= windowMs
            /\ now - c[j].at < windowMs
            /\ Cardinality(AdmittedInWindow(c, c[j].at)) = maxAttempts

(***************************************************************************)
(* Specification of the authenticated routes: clients log in, keep their   *)
(* tokens and present them, as issued or altered, while days pass and      *)
(* accounts are deactivated or removed.                                    *)
(***************************************************************************)
AuthDays == 1
AuthLogins == 1
AuthLoginBodies == { <<"admin", "admin123">>, <<"vicky1", "vicky123">> }

\* The Authorization headers a client can send: none, one of another
\* scheme, and "Bearer " followed by nothing, by a token it holds, or by a
\* token it holds with the body altered.
Headers ==
    {NoHeader, [present |-> TRUE, scheme |-> "Basic", token |-> NoToken]}
    \cup {[present |-> TRUE, scheme |-> "Bearer", token |-> t] :
              t \in {NoToken} \cup held \cup {Tampered(h) : h \in held}}

\* An administrator of the database clears the is_active flag of a user.
DeactivateUser(id) ==
    /\ id \in DOMAIN users
    /\ users[id].is_active
    /\ users' = [users EXCEPT ![id].is_active = FALSE]
    /\ UNCHANGED <<now, rateLimitStore, calls, reqs, held, verdicts, profiles, checkups, qr, hashes, tx>>

\* scripts/cleanup-users.js: DELETE FROM users WHERE username != 'admin',
\* run when an admin user and some other user exist.
cleanupUsers ==
    /\ \E i \in DOMAIN users : users[i].username = "admin"
    /\ \E i \in DOMAIN users : users[i].username # "admin"
    /\ users' = [i \in {j \in DOMAIN users : users[j].username = "admin"}
                    |-> users[i]]
    /\ UNCHANGED <<now, rateLimitStore, calls, reqs, held, verdicts, profiles, checkups, qr, hashes, tx>>

AuthNext ==
    \/ Tick(expiresInMs, AuthDays * expiresInMs)
    \/ \E r \in Reqs, ip \in LoginIPs, b \in AuthLoginBodies :
           LoginsBelow(AuthLogins) /\ ReceiveLogin(r, ip, b[1], b[2])
    \/ \E r \in Reqs : LoginLimit(r)
    \/ \E r \in Reqs, fails \in BOOLEAN : LoginLookup(r, fails)
    \/ \E r \in Reqs : LoginCompare(r)
    \/ \E r \in Reqs : LoginUpdate(r, TRUE)
    \/ \E r \in Reqs, ip \in LoginIPs, header \in Headers :
           ReceiveVerifyToken(r, ip, header)
    \/ \E r \in Reqs, fails \in BOOLEAN : AuthLookup(r, fails)
    \/ \E id \in DOMAIN users : DeactivateUser(id)
    \/ cleanupUsers

SpecAuth == Init /\ [][AuthNext]_vars

(***************************************************************************)
(* Specification of the admin-only routes: the administrator and a kader   *)
(* hold tokens from earlier logins and send requests that are handled      *)
(* concurrently.                                                           *)
(***************************************************************************)
MaxRegisters == 1

AdminTokens ==
    { generateToken([userId |-> 1, username |-> "admin", role |-> "admin"], 0),
      generateToken([userId |-> 2, username |-> "vicky1", role |-> "kader"], 0) }

AdminInit ==
    /\ now = 0
    /\ qr = NoQR
    /\ hashes = NoHashes
    /\ tx = NoTx
    /\ profiles = InitProfiles
    /\ checkups = InitCheckups
    /\ rateLimitStore = EmptyMap
    /\ calls = EmptyMap
    /\ users = InitUsers
    /\ reqs = [r \in Reqs |-> Idle]
    /\ held = AdminTokens
    /\ verdicts = NoVerdicts

\* The headers of this specification: none, a held token, and the kader's
\* token with its body altered to claim the administrator's identity.
AdminHeaders ==
    {NoHeader} \cup {[present |-> TRUE, scheme |-> "Bearer", token |-> t] :
                        t \in held \cup {Tampered(h) : h \in held}}

\* :id parameters: a row that exists, one that does not, and not an id.
ParamIds == { <<"1">>, <<"9">>, <<"a">> }

\* Register bodies: a new username, a taken one, and a password that the
\* validators refuse.
RegisterBodies ==
    { [username |-> <<"k", "a", "d", "e", "r", "9">>,
       password |-> <<"R", "a", "h", "a", "s", "i", "a", "1">>,
       posyandu_name |-> <<"M", "e", "l", "a", "t", "i">>, role |-> ""],
      [username |-> <<"v", "i", "c", "k", "y", "1">>,
       password |-> <<"R", "a", "h", "a", "s", "i", "a", "1">>,
       posyandu_name |-> <<"M", "e", "l", "a", "t", "i">>, role |-> "admin"],
      [username |-> <<"k", "a", "d", "e", "r", "9">>,
       password |-> <<"r", "a", "h", "a", "s", "i", "a">>,
       posyandu_name |-> <<"M", "e", "l", "a", "t", "i">>, role |-> "admin"] }

\* Fewer than n registrations have been made or are on their way.
RegistersBelow(n) ==
    Cardinality(DOMAIN users \ DOMAIN InitUsers)
      + Cardinality({x \in Reqs : reqs[x].route = "register"
                                    /\ reqs[x].pc \notin {"idle", "done"}}) < n

AdminNext ==
    \/ \E r \in Reqs, route \in DeleteRoutes, ip \in LoginIPs,
          header \in AdminHeaders, id \in ParamIds :
           ReceiveAdminRoute(r, route, ip, header, id, NoBodyFields)
    \/ \E r \in Reqs, ip \in LoginIPs, header \in AdminHeaders, body \in RegisterBodies :
           /\ RegistersBelow(MaxRegisters)
           /\ ReceiveAdminRoute(r, "register", ip, header, <<>>, body)
    \/ \E r \in Reqs : AuthLookup(r, FALSE)
    \/ \E r \in Reqs, fails \in BOOLEAN : DeleteExists(r, fails)
    \/ \E r \in Reqs, fails \in BOOLEAN : DeleteRecord(r, fails)
    \/ \E r \in Reqs, fails \in BOOLEAN : RegisterExists(r, fails)
    \/ \E r \in Reqs : RegisterHash(r, "salt1")
    \/ \E r \in Reqs, fails \in BOOLEAN : RegisterInsert(r, fails)

SpecAdmin == AdminInit /\ [][AdminNext]_vars

(***************************************************************************)
(* Specification of the scan route: the holders of tokens send scan        *)
(* requests that are handled concurrently.                                 *)
(***************************************************************************)
\* A structured payload with the given id and app tag.
ScanPayload(id, app) ==
    JSON_stringify(JObj(<< <<K_type, JStr(S_profile)>>, <<K_id, id>>,
                           <<K_app, JStr(app)>> >>))

\* The qr_data of the requests: none, an empty text, payloads made by
\* createProfileQRData, payloads with another app tag or without an id,
\* "{}", legacy identifiers, and texts that are neither.
ScanData ==
    {Undefined, JStr(<<>>)}
    \cup {JStr(t) : t \in
            { createProfileQRData(JNum(1), JStr(<<"S", "i", "t", "i">>), 0),
              ScanPayload(JNum(9), S_lansia_health),
              ScanPayload(JNum(1), <<"o", "t", "h", "e", "r">>),
              ScanPayload(JNum(0), S_lansia_health),
              <<"{", "}">>, <<"n", "u", "l", "l">>,
              <<"Q", "R", "2">>, <<"Q", "R", "9">>,
              <<"Q", "R", "a", "b", "c">>, <<"Q", "R", "1", "_", "x">>,
              OtherNotAPayload }}

ScanNext ==
    \/ \E r \in Reqs, ip \in LoginIPs, header \in AdminHeaders, qr_data \in ScanData :
           ReceiveScan(r, ip, header, qr_data)
    \/ \E r \in Reqs : AuthLookup(r, FALSE)
    \/ \E r \in Reqs, fails \in BOOLEAN : ScanProfile(r, fails)
    \/ \E r \in Reqs, fails \in BOOLEAN : ScanCheckups(r, fails)

SpecScan == AdminInit /\ [][ScanNext]_vars

(***************************************************************************)
(* Specification of the password functions: passwords are hashed, each     *)
(* call drawing a salt that no earlier call drew, and passwords are        *)
(* compared with the hashes made.                                          *)
(***************************************************************************)
RECURSIVE Repeat(_, _)
Repeat(c, n) == IF n = 0 THEN "" ELSE c \o Repeat(c, n - 1)

\* Plaintexts: two short ones, and two of 73 characters that differ in the
\* last one.
Plaintexts ==
    {"Rahasia1", "Rahasia2", Repeat("a", 72) \o "b", Repeat("a", 72) \o "c"}

\* The salts of the hashes made so far.
UsedSalts == {hashes.made[i].hash.salt : i \in 1..Len(hashes.made)}

\* await hashPassword(password)
HashCall(password) ==
    /\ \E salt \in Salts \ UsedSalts :
          hashes' = [hashes EXCEPT !.made =
                        Append(@, [plain |-> password,
                                   hash |-> hashPassword(password, salt)]),
                                  !.done = FALSE]
    /\ UNCHANGED <<now, rateLimitStore, calls, users, reqs, held, verdicts, profiles, checkups, qr, tx>>

\* await comparePassword(password, h) for the i-th hash made
CompareCall(password, i) ==
    /\ hashes' = [hashes EXCEPT !.password = password, !.against = i,
                                !.result = comparePassword(password, hashes.made[i].hash),
                                !.done = TRUE]
    /\ UNCHANGED <<now, rateLimitStore, calls, users, reqs, held, verdicts, profiles, checkups, qr, tx>>

HashNext ==
    \/ \E password \in Plaintexts : HashCall(password)
    \/ \E password \in Plaintexts, i \in 1..Len(hashes.made) :
           CompareCall(password, i)

SpecHash == Init /\ [][HashNext]_vars

(***************************************************************************)
(* Specification of altered tokens: the holders of tokens present them as  *)
(* issued and with one character changed, before and after their expiry.   *)
(***************************************************************************)
AlteredHeaders ==
    {[present |-> TRUE, scheme |-> "Bearer", token |-> t] :
        t \in held \cup UNION {OneCharAltered(h) : h \in held}}

AlteredNext ==
    \/ Tick(expiresInMs, AuthDays * expiresInMs)
    \/ \E r \in Reqs, ip \in LoginIPs, header \in AlteredHeaders :
           ReceiveVerifyToken(r, ip, header)
    \/ \E r \in Reqs : AuthLookup(r, FALSE)

SpecAltered == AdminInit /\ [][AlteredNext]_vars

(***************************************************************************)
(* Specification of role changes: the administrator and a kader hold       *)
(* tokens from earlier logins; roles are changed in the users table while  *)
(* they send delete requests.                                              *)
(***************************************************************************)
\* An administrator of the database sets the role of a user.
ChangeRole(id, role) ==
    /\ id \in DOMAIN users
    /\ users[id].role # role
    /\ users' = [users EXCEPT ![id].role = role]
    /\ UNCHANGED <<now, rateLimitStore, calls, reqs, held, verdicts, profiles, checkups, qr, hashes, tx>>

\* The headers of this specification: the tokens held, as issued.
HeldHeaders == {[present |-> TRUE, scheme |-> "Bearer", token |-> t] : t \in held}

RoleNext ==
    \/ \E id \in {1, 2}, role \in {"admin", "kader"} : ChangeRole(id, role)
    \/ \E r \in Reqs, ip \in LoginIPs, header \in HeldHeaders, id \in ParamIds :
           ReceiveAdminRoute(r, "delete-profile", ip, header, id, NoBodyFields)
    \/ \E r \in Reqs : AuthLookup(r, FALSE)
    \/ \E r \in Reqs : DeleteExists(r, FALSE)
    \/ \E r \in Reqs : DeleteRecord(r, FALSE)

SpecRole == AdminInit /\ [][RoleNext]_vars

(***************************************************************************)
(* Specification of transactions: profiles are created one after another.  *)
(***************************************************************************)
MaxCreated == 2

TxNames == {"Ani", "Tono"}

TxNext ==
    \/ \E nama \in TxNames, withCheckup \in BOOLEAN, fails \in BOOLEAN :
           /\ Cardinality(DOMAIN profiles \ DOMAIN InitProfiles) < MaxCreated
           /\ TxGetConnection(nama, withCheckup, fails)
    \/ \E fails \in BOOLEAN : TxBegin(fails)
    \/ \E fails \in BOOLEAN : TxStatement(fails)
    \/ \E fails \in BOOLEAN : TxCommit(fails)
    \/ \E fails \in BOOLEAN : TxRollback(fails)
    \/ TxRelease

SpecTx == Init /\ [][TxNext]_vars

(***************************************************************************)
(* Specification of concurrent registrations: the administrator sends      *)
(* register requests, which are handled concurrently.  An insert may fail, *)
(* which is also what a unique index on username would make of a second    *)
(* insert of a username.                                                   *)
(***************************************************************************)
MaxRegistered == 2

\* The token of the administrator.
AdminHeader ==
    {[present |-> TRUE, scheme |-> "Bearer", token |-> t] :
        t \in {h \in held : h.body.role = "admin"}}

\* Valid register bodies: a new username and a taken one.
ValidRegisterBodies == {b \in RegisterBodies : validateUserRegistration([body |-> b])}

RegisterNext ==
    \/ \E r \in Reqs, ip \in LoginIPs, header \in AdminHeader,
          body \in ValidRegisterBodies :
           /\ RegistersBelow(MaxRegistered)
           /\ ReceiveAdminRoute(r, "register", ip, header, <<>>, body)
    \/ \E r \in Reqs : AuthLookup(r, FALSE)
    \/ \E r \in Reqs : RegisterExists(r, FALSE)
    \/ \E r \in Reqs, salt \in Salts : RegisterHash(r, salt)
    \/ \E r \in Reqs, fails \in BOOLEAN : RegisterInsert(r, fails)

SpecRegister == AdminInit /\ [][RegisterNext]_vars

(***************************************************************************)
(* Specification of the cleanup script: it is run on databases with and    *)
(* without the user named admin, with and without a second administrator,  *)
(* while the administrator registers users.                                *)
(***************************************************************************)
\* The rows that the user of an id may be: user 2 is the kader vicky1 or a
\* second administrator.
CleanupRows(i) ==
    CASE i = 1 -> {Row(1, "admin", "admin123", "admin", TRUE)}
      [] i = 2 -> {Row(2, "vicky1", "vicky123", "kader", TRUE),
                   Row(2, "kepala", "kepala123", "admin", TRUE)}
      [] OTHER -> {Row(3, "kader2", "kader123", "kader", FALSE)}

CleanupTables ==
    UNION {{f \in [S -> UNION {CleanupRows(i) : i \in 1..3}] :
               \A i \in S : f[i] \in CleanupRows(i)} : S \in SUBSET (1..3)}

CleanupInit ==
    /\ now = 0
    /\ qr = NoQR
    /\ hashes = NoHashes
    /\ tx = NoTx
    /\ profiles = InitProfiles
    /\ checkups = InitCheckups
    /\ rateLimitStore = EmptyMap
    /\ calls = EmptyMap
    /\ users \in CleanupTables
    /\ reqs = [r \in Reqs |-> Idle]
    /\ held = AdminTokens
    /\ verdicts = NoVerdicts

CleanupNext ==
    \/ \E r \in Reqs, ip \in LoginIPs, header \in AdminHeader,
          body \in ValidRegisterBodies :
           /\ RegistersBelow(MaxRegistered)
           /\ ReceiveAdminRoute(r, "register", ip, header, <<>>, body)
    \/ \E r \in Reqs : AuthLookup(r, FALSE)
    \/ \E r \in Reqs : RegisterExists(r, FALSE)
    \/ \E r \in Reqs, salt \in Salts : RegisterHash(r, salt)
    \/ \E r \in Reqs : RegisterInsert(r, FALSE)
    \/ cleanupUsers

SpecCleanup == CleanupInit /\ [][CleanupNext]_vars

(***************************************************************************)
(* Specification of the checkup routes: checkups are created and updated   *)
(* with blood sugar values inside, at the ends of, and outside 50..500.    *)
(***************************************************************************)
MaxCheckups == 3

GulaValues ==
    {Undefined, JNum(0), JNum(49), JNum(50), JNum(500), JNum(501)}

\* No header, and the header of the kader's token.
CheckupHeaders ==
    {NoHeader} \cup {[present |-> TRUE, scheme |-> "Bearer", token |-> t] :
                        t \in {h \in held : h.body.userId = 2}}

\* Fewer than n checkups exist or are being created.
CheckupsBelow(n) ==
    Cardinality(DOMAIN checkups)
      + Cardinality({x \in Reqs : reqs[x].route = "create-checkup"
                                     /\ reqs[x].pc \notin {"idle", "done"}}) < n

\* One client creates checkups and the other updates them.
CheckupNext ==
    \/ \E ip \in LoginIPs, header \in CheckupHeaders,
          profile_id \in {JNum(1), JNum(9)}, gula_darah \in GulaValues :
           /\ CheckupsBelow(MaxCheckups)
           /\ ReceiveCheckup(1, "create-checkup", ip, header, <<>>,
                             profile_id, gula_darah)
    \/ \E ip \in LoginIPs, header \in CheckupHeaders,
          id \in {<<"1">>, <<"a">>}, gula_darah \in GulaValues :
           ReceiveCheckup(2, "update-checkup", ip, header, id,
                          Undefined, gula_darah)
    \/ \E r \in Reqs : AuthLookup(r, FALSE)
    \/ \E r \in Reqs, fails \in BOOLEAN : CheckupProfile(r, fails)
    \/ \E r \in Reqs, fails \in BOOLEAN : CheckupInsert(r, fails)
    \/ \E r \in Reqs, fails \in BOOLEAN : CheckupUpdate(r, fails)

SpecCheckup == AdminInit /\ [][CheckupNext]_vars

(***************************************************************************)
(* Specification of PIN validation: the holders of tokens send requests    *)
(* with no pin, their own pin, and another user's pin.                     *)
(***************************************************************************)
Pins == {"", "123456", "654321", "111111"}

PinNext ==
    \/ \E r \in Reqs, ip \in LoginIPs, header \in AdminHeaders, pin \in Pins :
           ReceivePin(r, ip, header, pin)
    \/ \E r \in Reqs : AuthLookup(r, FALSE)
    \/ \E r \in Reqs, fails \in BOOLEAN : PinLookup(r, fails)

SpecPin == AdminInit /\ [][PinNext]_vars

(***************************************************************************)
(* Properties of the login route.                                          *)
(***************************************************************************)
Occurrences(seq, x) == Cardinality({i \in 1..Len(seq) : seq[i] = x})

AdmittedAt(c, t) == {i \in 1..Len(c) : c[i].next /\ c[i].at = t}

\* C3: the limiter's check-then-act is atomic.  Under every interleaving
\* of the requests being handled, no admission is lost from the stored
\* list (every admitted attempt younger than one window is in the list
\* the next request reads, as often as it was admitted), and so at the
\* time of each admission at most maxAttempts attempts of that key have
\* been admitted inside the window.
C3_CheckThenActAtomic ==
    \A k \in DOMAIN calls :
        LET c == calls[k] IN
        /\ \A i \in 1..Len(c) :
               (c[i].next /\ now - c[i].at < windowMs)
                   => Occurrences(userAttempts(k), c[i].at)
                          = Cardinality(AdmittedAt(c, c[i].at))
        /\ \A i \in 1..Len(c) :
               c[i].next =>
                   Cardinality({j \in 1..i : c[j].next
                                   /\ c[i].at - c[j].at < windowMs})
                       <= maxAttempts

\* Two requests of one client handled at the same time, at the limit: one
\* was admitted as the fifth attempt and is still awaiting its lookup, the
\* other was rejected.
C3_Witness ==
    \E r1, r2 \in Reqs :
        /\ r1 # r2
        /\ reqs[r1].ip = reqs[r2].ip
        /\ reqs[r1].pc = "lookup" /\ ~reqs[r1].windowFull
        /\ reqs[r2].pc = "done" /\ reqs[r2].status = 429
        /\ LiveAdmitted(RateLimitKey(reqs[r1].ip, NoUser)) = maxAttempts

\* C4: a login attempt that reaches the limiter when five attempts of its
\* key were admitted less than 15 minutes ago is answered 429 whatever its
\* credentials, and a request answered 429 has made no user lookup, no
\* password comparison and carries no token.
C4_SixthLoginRejected ==
    \A r \in Reqs :
        /\ (reqs[r].route = "login" /\ reqs[r].windowFull)
               => (reqs[r].pc = "done" /\ reqs[r].status = 429)
        /\ reqs[r].status = 429
               => (/\ ~reqs[r].lookedUp
                   /\ ~reqs[r].compared
                   /\ reqs[r].token = NoToken)

\* The sixth attempt carries the administrator's correct password and is
\* rejected all the same.
C4_Witness ==
    \E r \in Reqs :
        /\ reqs[r].route = "login" /\ reqs[r].windowFull
        /\ reqs[r].username = "admin" /\ reqs[r].password = "admin123"
        /\ reqs[r].status = 429
        /\ comparePassword(reqs[r].password, users[1].password)
        /\ users[1].last_login = -1

\* The three ways a login fails on its credentials.
UnknownUsername(q) == IdsByUsername(q.username) = {}

InactiveAccount(q) ==
    \E i \in IdsByUsername(q.username) : ~users[i].is_active

WrongPassword(q) ==
    \E i \in IdsByUsername(q.username) :
        users[i].is_active /\ ~comparePassword(q.password, users[i].password)

\* A login that was answered after its lookup succeeded as a query and
\* that failed on its credentials.
CredentialFailure(q) ==
    /\ q.route = "login" /\ q.pc = "done"
    /\ q.lookedUp /\ ~q.dbFailed
    /\ (UnknownUsername(q) \/ InactiveAccount(q) \/ WrongPassword(q))

\* C9: a failed login does not reveal whether the username exists: the
\* responses for an unknown username, an inactive account and a wrong
\* password have the same status and the same message.
C9_LoginFailureUniform ==
    \A r1, r2 \in Reqs :
        (CredentialFailure(reqs[r1]) /\ CredentialFailure(reqs[r2]))
            => (/\ reqs[r1].status = reqs[r2].status
                /\ reqs[r1].message = reqs[r2].message)

\* C10: a request whose user lookup failed as a query (as opposed to
\* returning no row) is answered 500, in authenticate and in login alike.
C10_LookupFailureIs500 ==
    \A r \in Reqs :
        (reqs[r].pc = "done" /\ reqs[r].dbFailed) => reqs[r].status = 500

(***************************************************************************)
(* Specification of the token functions alone: a token is issued for some  *)
(* claims, presented as issued or altered, and verified as time passes.    *)
(***************************************************************************)
TokenDays == 2

ClaimSets ==
    { [userId |-> 1, username |-> "admin", role |-> "admin"],
      [userId |-> 2, username |-> "vicky1", role |-> "kader"],
      [userId |-> 7, username |-> "kader1", role |-> "kader"] }

\* What a presented token is, told from how it was made: issued with the
\* server's secret or not, and past its expiry or not.
KindOf(token, t) ==
    IF token.parts # 3 THEN "malformed"
    ELSE IF token.sig # Sign(JWT_SECRET, token.body) THEN "signature"
    ELSE IF t \div 1000 >= token.body.exp THEN "expired"
    ELSE "valid"

\* generateToken(claims): the client holds the token.
TokenIssue(claims) ==
    /\ held = {}
    /\ held' = {generateToken(claims, now)}
    /\ UNCHANGED <<now, rateLimitStore, calls, users, reqs, verdicts, profiles, checkups, qr, hashes, tx>>

\* verifyToken(token) on a token as it was issued or altered.
TokenVerify(token) ==
    LET v == verifyToken(token, now)
    IN /\ verdicts' = [verdicts EXCEPT ![KindOf(token, now)] =
                          [seen |-> TRUE, null |-> v.null, error |-> v.error,
                           claims |-> v.claims]]
       /\ UNCHANGED <<now, rateLimitStore, calls, users, reqs, held, profiles, checkups, qr, hashes, tx>>

TokenNext ==
    \/ Tick(expiresInMs \div 2, TokenDays * expiresInMs)
    \/ \E claims \in ClaimSets : TokenIssue(claims)
    \/ \E token \in Presentable : TokenVerify(token)

SpecToken == Init /\ [][TokenNext]_vars

(***************************************************************************)
(* Properties of the token functions.                                      *)
(***************************************************************************)
FailureKinds == {"expired", "signature", "malformed"}

C7_VerifyReturnsIssuedClaims ==
    /\ \A token \in held :
           (now \div 1000 < token.body.exp) =>
               LET v == verifyToken(token, now) IN
               /\ ~v.null
               /\ v.claims = token.body
               /\ \E claims \in ClaimSets :
                      /\ token = generateToken(claims, token.body.iat * 1000)
                      /\ v.claims.userId = claims.userId
                      /\ v.claims.username = claims.username
                      /\ v.claims.role = claims.role
    /\ (verdicts["valid"].seen => ~verdicts["valid"].null)

\* A token verified as valid half a lifetime after it was issued.
C7_Witness ==
    \E token \in held :
        /\ now > token.body.iat * 1000
        /\ now \div 1000 < token.body.exp
        /\ verdicts["valid"].seen
        /\ verdicts["valid"].claims = token.body

(***************************************************************************)
(* Properties of authenticate.                                             *)
(***************************************************************************)
HeaderOk(q) == q.authorization.present /\ q.authorization.scheme = "Bearer"

\* The presented token was correctly signed and unexpired when the request
\* arrived.
TokenGood(q) == KindOf(q.authorization.token, q.at) = "valid"

\* What holds of every request to an authenticated route, at every time.
C5_Order ==
    \A r \in Reqs :
        LET q == reqs[r] IN
        q.route = "verify-token" =>
            /\ ~HeaderOk(q) =>
                   (/\ q.pc = "done" /\ q.status = 401
                    /\ q.message = "Access token required" /\ ~q.lookedUp)
            /\ (HeaderOk(q) /\ ~TokenGood(q)) =>
                   (/\ q.pc = "done" /\ q.status = 401
                    /\ q.message = "Invalid or expired token" /\ ~q.lookedUp)
            /\ q.user # NoRow =>
                   (/\ HeaderOk(q) /\ TokenGood(q) /\ q.lookedUp
                    /\ q.status = 200
                    /\ q.user.id = q.authorization.token.body.userId
                    /\ q.user.is_active)
            /\ q.status = 200 => q.user # NoRow

\* What holds of every step in which the user lookup of authenticate
\* returns.
C5_Lookup ==
    \A r \in Reqs :
        (reqs[r].pc = "authLookup" /\ reqs'[r].pc = "done") =>
            LET id == reqs[r].decoded.userId
                found == id \in DOMAIN users /\ users[id].is_active
            IN /\ reqs'[r].user # NoRow => (found /\ reqs'[r].user = users[id])
               /\ ~found => (reqs'[r].status = 401 /\ reqs'[r].user = NoRow)

\* C5: authenticate sets req.user and calls next only if the header is
\* present and starts with "Bearer ", the rest verifies as a correctly
\* signed unexpired token, and the lookup by the token's userId returns a
\* user who is active at that time, checked in this order; a token of a
\* user who has since been deleted or deactivated is answered 401.
C5_AdmitsOnlyValidActive == []C5_Order /\ [][C5_Lookup]_vars

\* A token that login issued and that still verifies is rejected with 401
\* twice: once when its user had been deactivated (the lookup returned the
\* row, inactive), once when the user had been deleted (no row).
C5_Witness ==
    \E r1, r2 \in Reqs :
        /\ \A r \in {r1, r2} :
               /\ reqs[r].route = "verify-token" /\ reqs[r].status = 401
               /\ reqs[r].message = "User not found or inactive"
               /\ reqs[r].authorization.token \in held
               /\ TokenGood(reqs[r]) /\ ~reqs[r].dbFailed
               /\ reqs[r].user = NoRow
        /\ reqs[r1].row.id = reqs[r1].decoded.userId
        /\ ~reqs[r1].row.is_active
        /\ reqs[r2].row = NoRow
        /\ reqs[r2].decoded.userId \notin DOMAIN users

\* A request that authenticate answered with a failure of authentication.
AuthFailure(q) ==
    /\ q.route = "verify-token" /\ q.pc = "done"
    /\ q.status # 200 /\ ~q.dbFailed

\* The check that failed: the header, the token, or the user.
FailedStage(q) ==
    IF ~HeaderOk(q) THEN "header"
    ELSE IF ~TokenGood(q) THEN "token"
    ELSE "user"

MaxTextLen == 4

QRAlphabet == {"Q", "R", "1", "a", "{", "}"}

\* Every text over the alphabet up to the length bound.
ShortTexts == UNION {[1..n -> QRAlphabet] : n \in 0..MaxTextLen}

\* Members that a structured text may carry for a key, Undefined for none.
TypeValues == {Undefined, JStr(S_profile), JStr(<<>>), JNum(0)}
IdValues == {Undefined, JNum(7), JNum(0), JStr(<<"1", "2">>), JStr(<<>>), JNull}
AppValues == {Undefined, JStr(S_lansia_health), JStr(<<"o", "t", "h", "e", "r">>)}

StructuredTexts ==
    { JSON_stringify(JObj(<< <<K_type, ty>>, <<K_id, id>>, <<K_app, app>> >>)) :
        ty \in TypeValues, id \in IdValues, app \in AppValues }

\* Texts that are JSON but not objects, and the examples of the
\* documentation.
OtherTexts ==
    { <<"n", "u", "l", "l">>, <<"t", "r", "u", "e">>, <<"4", "2">>,
      <<"[", "]">>, <<"\"", "Q", "R", "1", "\"">>,
      <<"Q", "R", "4", "2">>, <<" ", "Q", "R", "4", "2">>,
      <<"Q", "R", "4", "2", " ">>, <<"Q", "R", "4", "2", "_", "x">>,
      OtherNotAPayload }

QRTexts == ShortTexts \cup StructuredTexts \cup OtherTexts

\* Profile ids (AUTO_INCREMENT numbers, or the text of one) and names.
ProfileIds == {JNum(1), JNum(42), JStr(<<"7">>)}
ProfileNames ==
    { JStr(<<"S", "i", "t", "i">>), JStr(<<"a", "\"", "b", "\\", "c">>),
      JStr(<<>>), JStr(<<"{", "}">>) }

\* parseQRData and validateQRFormat applied to a text.
Handle(text, encoded, id, name) ==
    [text |-> text, encoded |-> encoded, id |-> id, name |-> name,
     parsed |-> parseQRData(text), valid |-> validateQRFormat(text),
     done |-> TRUE]

\* A scanner delivers a text.
QRScan(text) ==
    /\ ~qr.done
    /\ qr' = Handle(text, FALSE, Undefined, Undefined)
    /\ UNCHANGED <<now, rateLimitStore, calls, users, reqs, held, verdicts, profiles, checkups, hashes, tx>>

\* createProfileQRData makes the text.
QREncode(id, name) ==
    /\ ~qr.done
    /\ qr' = Handle(createProfileQRData(id, name, now), TRUE, id, name)
    /\ UNCHANGED <<now, rateLimitStore, calls, users, reqs, held, verdicts, profiles, checkups, hashes, tx>>

QRNext ==
    \/ ~qr.done /\ Tick(TickMs, MaxTicks * TickMs)
    \/ \E text \in QRTexts : QRScan(text)
    \/ \E id \in ProfileIds, name \in ProfileNames : QREncode(id, name)

SpecQR == Init /\ [][QRNext]_vars

(***************************************************************************)
(* Properties of the admin-only routes.                                    *)
(***************************************************************************)
\* What holds of every admin-only request whose principal is known.
C11_Gate ==
    \A r \in Reqs :
        LET q == reqs[r] IN
        (q.route \in AdminRoutes /\ q.user # NoRow) =>
            /\ q.user.role # "admin" =>
                   (/\ q.pc = "done" /\ ~q.wrote
                    /\ q.status \in {400, 403}
                    /\ RouteValid(q) =>
                           (/\ q.status = 403
                            /\ q.message = ForbiddenMessage(q.route)))
            /\ (q.pc \in {"exists", "delete", "hash", "insert"} \/ q.wrote)
                   => q.user.role = "admin"

\* Every step that deletes or inserts a row is the step of a request whose
\* principal is an administrator.
C11_Writes ==
    (profiles' # profiles \/ checkups' # checkups \/ users' # users) =>
        \E r \in Reqs :
            /\ reqs[r].user.role = "admin"
            /\ reqs[r].pc \in {"delete", "insert"}
            /\ reqs'[r].wrote

SameValue(a, b) ==
    /\ a.t = b.t
    /\ a.t \notin {"undefined", "null"} => a.v = b.v

\* The text is "QR" followed by one or more digits and nothing else.
IsLegacyText(cs) ==
    /\ Len(cs) >= 3 /\ cs[1] = "Q" /\ cs[2] = "R"
    /\ \A i \in 3..Len(cs) : cs[i] \in DigitChars

\* The text is JSON for an object.
IsObjectText(cs) == ~JSON_parse(cs).thrown /\ JSON_parse(cs).v.t = "obj"

IsLegacyResult(parsed) ==
    parsed.success /\ Get(parsed.data, K_legacy).t # "undefined"

\* C12: validateQRFormat(s) is true exactly when parseQRData(s) succeeds.
C12_ValidateIffParse ==
    qr.done => (Truthy(qr.valid) <=> qr.parsed.success)

\* C13: parseQRData(createProfileQRData(id, name)) succeeds as a structured
\* payload, without the legacy flag, whose id and name are the encoded id
\* and name, for the ids that profiles have (positive numbers, or the text
\* of one) and every name.
C13_RoundTrip ==
    qr.encoded =>
        /\ qr.parsed.success
        /\ ~IsLegacyResult(qr.parsed)
        /\ SameValue(Get(qr.parsed.data, K_id), qr.id)
        /\ SameValue(Get(qr.parsed.data, K_name), qr.name)
        /\ IsString(Get(qr.parsed.data, K_type), S_profile)

\* A payload made some time after the start for a numeric id and a name
\* with a quote and a backslash in it.
C13_Witness ==
    /\ qr.encoded /\ now > 0
    /\ qr.id = JNum(42)
    /\ qr.name.t = "str"
    /\ \E i \in 1..Len(qr.name.v) : qr.name.v[i] = "\""
    /\ \E i \in 1..Len(qr.name.v) : qr.name.v[i] = "\\"
    /\ qr.parsed.success

\* C14: for a text that parses, parseQRData returns the parsed value as
\* Structured exactly when the app member is "lansia-health" and the type
\* and id members are present, whatever their values, and Invalid
\* otherwise; never Legacy.
C14_StructuredIffPresent ==
    (qr.done /\ IsObjectText(qr.text)) =>
        LET val == JSON_parse(qr.text).v
            present == /\ IsString(Get(val, K_app), S_lansia_health)
                       /\ Get(val, K_type).t # "undefined"
                       /\ Get(val, K_id).t # "undefined"
        IN /\ present => (qr.parsed.success /\ qr.parsed.data = val)
           /\ ~present => ~qr.parsed.success
           /\ ~IsLegacyResult(qr.parsed)

\* C15: for a text that is not JSON for an object, parseQRData returns
\* Legacy with the digits as id when the text is "QR" followed by one or
\* more digits, and Invalid for every other text; "QR42" gives id "42",
\* "not a payload" and "{}" are Invalid.
C15_LegacyOrInvalid ==
    /\ (qr.done /\ ~IsObjectText(qr.text)) =>
           IF IsLegacyText(qr.text)
           THEN /\ IsLegacyResult(qr.parsed)
                /\ IsString(Get(qr.parsed.data, K_id),
                            SubSeq(qr.text, 3, Len(qr.text)))
                /\ IsString(Get(qr.parsed.data, K_type), S_profile)
           ELSE ~qr.parsed.success
    /\ (qr.done /\ qr.text = <<"Q", "R", "4", "2">>) =>
           IsString(Get(qr.parsed.data, K_id), <<"4", "2">>)
    /\ (qr.done /\ qr.text = <<"{", "}">>) => ~qr.parsed.success
    /\ (qr.done /\ qr.text = OtherNotAPayload) => ~qr.parsed.success

\* "QR42" has been read as Legacy with id "42".
C15_Witness ==
    /\ qr.done /\ qr.text = <<"Q", "R", "4", "2">>
    /\ IsLegacyResult(qr.parsed)
    /\ IsString(Get(qr.parsed.data, K_id), <<"4", "2">>)

(***************************************************************************)
(* Properties of the stored attempts of the limiter.                       *)
(***************************************************************************)
\* The step is a call of the limiter for key k.
CalledFor(k) == k \in DOMAIN calls' /\ Len(calls'[k]) = Len(CallsOf(k)) + 1

\* The outcome of the call that the step made for key k.
LastCall(k) == calls'[k][Len(calls'[k])]

\* The attempts stored for key k after the step.
StoredAfter(k) ==
    IF k \in DOMAIN rateLimitStore' THEN rateLimitStore'[k] ELSE <<>>

\* C17: immediately after a call of the limiter for key k at time now,
\* admitted or rejected, the sequence stored for k has at most 5 entries and
\* each of them is less than 15 minutes old.
C17_StoredIsPruned ==
    [][\A k \in DOMAIN calls' :
          CalledFor(k) =>
              /\ Len(StoredAfter(k)) <= 5
              /\ \A i \in 1..Len(StoredAfter(k)) :
                     now' - StoredAfter(k)[i] < 15 * 60 * 1000]_vars

\* A key whose first attempt has aged out of the store, which holds five
\* later ones, and whose last call was rejected just now.
C17_Witness ==
    \E k \in DOMAIN calls :
        LET c == calls[k] IN
        /\ Len(c) = 7
        /\ c[1].next /\ c[1].at + windowMs <= c[2].at
        /\ ~c[7].next /\ c[7].at = now
        /\ Len(userAttempts(k)) = 5
        /\ \A i \in 1..5 : userAttempts(k)[i] # c[1].at

\* C18: a rejected call of the limiter leaves the stored attempts of every
\* key as they were; an admitted call for key k leaves the other keys as
\* they were and stores for k the attempts of the last 15 minutes followed
\* by one new entry, now.
C18_RejectedRecordsNothing ==
    [][\A k \in DOMAIN calls' :
          CalledFor(k) =>
              IF ~LastCall(k).next
              THEN rateLimitStore' = rateLimitStore
              ELSE /\ StoredAfter(k) =
                        Append(SelectSeq(userAttempts(k),
                                         LAMBDA t : now - t < 15 * 60 * 1000), now)
                   /\ \A j \in DOMAIN rateLimitStore \ {k} :
                          rateLimitStore'[j] = rateLimitStore[j]
                   /\ DOMAIN rateLimitStore' = DOMAIN rateLimitStore \cup {k}]_vars

\* A key that has just been rejected some time after its five attempts,
\* which are still what is stored for it, while another key has an attempt
\* stored.
C18_Witness ==
    \E k \in DOMAIN calls, j \in DOMAIN rateLimitStore :
        LET c == calls[k] IN
        /\ j # k /\ Len(rateLimitStore[j]) > 0
        /\ Len(c) = 5 + 1
        /\ \A i \in 1..5 : c[i].next /\ c[i].at = c[1].at
        /\ ~c[6].next /\ c[6].at > c[1].at /\ c[6].at = now
        /\ userAttempts(k) = [i \in 1..5 |-> c[1].at]

(***************************************************************************)
(* Properties of the effects of authenticate.                              *)
(***************************************************************************)
\* The step is a step of authenticate for the request in slot r: its
\* arrival, or the return of its user lookup.
AuthenticateStep(r) ==
    /\ reqs'[r] # reqs[r]
    /\ reqs'[r].route = "verify-token"

\* C20: a step of authenticate, whatever its outcome, leaves the users, the
\* stored attempts of the limiter, the tokens in circulation and the
\* Authorization header of the request as they were, puts no token in the
\* response, and looks the user up at most once.
C20_AuthenticateOnlyReads ==
    [][\A r \in Reqs :
          AuthenticateStep(r) =>
              /\ users' = users
              /\ rateLimitStore' = rateLimitStore
              /\ held' = held
              /\ profiles' = profiles /\ checkups' = checkups
              /\ reqs'[r].token = NoToken
              /\ reqs[r].pc = "authLookup" =>
                     /\ reqs'[r].authorization = reqs[r].authorization
                     /\ ~reqs[r].lookedUp /\ reqs'[r].lookedUp]_vars

\* The same token has been admitted once and, its user deactivated since,
\* refused once after the lookup, and is still held as it was issued.
C20_Witness ==
    \E r1, r2 \in Reqs :
        /\ reqs[r1].route = "verify-token" /\ reqs[r2].route = "verify-token"
        /\ reqs[r1].pc = "done" /\ reqs[r1].status = 200 /\ reqs[r1].lookedUp
        /\ reqs[r2].pc = "done" /\ reqs[r2].status = 401 /\ reqs[r2].lookedUp
        /\ reqs[r1].authorization = reqs[r2].authorization
        /\ reqs[r1].authorization.token \in held

(***************************************************************************)
(* Properties of the password functions.                                   *)
(***************************************************************************)
\* C19: two hashPassword calls for the same plaintext return different
\* hashes, comparePassword of the plaintext with each of them is true, and
\* comparePassword of any other plaintext with them is false.
C19_HashAndCompare ==
    /\ \A i, j \in 1..Len(hashes.made) :
           (i # j /\ hashes.made[i].plain = hashes.made[j].plain)
               => hashes.made[i].hash # hashes.made[j].hash
    /\ hashes.done =>
           (hashes.result <=> hashes.password = hashes.made[hashes.against].plain)

(***************************************************************************)
(* Properties of the scan route.                                           *)
(***************************************************************************)
\* An authenticated scan request whose qr_data parseQRData calls Invalid.
InvalidScan(q) ==
    /\ q.route = "scan" /\ q.user # NoRow
    /\ q.qr_data.t = "str" /\ q.qr_data.v # <<>>
    /\ ~parseQRData(q.qr_data.v).success

\* C16: an authenticated scan request whose qr_data is Invalid for
\* parseQRData is answered 400 before the profile lookup: it never waits
\* for a lookup and is never answered 404 or with a profile.
C16_InvalidScanIs400 ==
    \A r \in Reqs :
        InvalidScan(reqs[r]) =>
            /\ reqs[r].pc = "done"
            /\ reqs[r].status = 400
            /\ reqs[r].profile = 0

(***************************************************************************)
(* Properties of altered tokens.                                           *)
(***************************************************************************)
\* The token is a held token with one character changed.
IsAltered(token) ==
    token \notin held /\ \E h \in held : token \in OneCharAltered(h)

\* C21: a token made by changing one character of an issued token is never
\* accepted: verifyToken returns null for it, and authenticate answers 401
\* without reading its claims, looking a user up or attaching a principal.
C21_AlteredTokenRejected ==
    /\ \A h \in held : \A a \in OneCharAltered(h) : verifyToken(a, now).null
    /\ \A r \in Reqs :
           (reqs[r].route = "verify-token" /\ IsAltered(reqs[r].authorization.token))
               => /\ reqs[r].pc = "done"
                  /\ reqs[r].status = 401
                  /\ reqs[r].decoded = NoBody
                  /\ reqs[r].user = NoRow
                  /\ ~reqs[r].lookedUp

\* The kader's token has been admitted as issued and refused with its role
\* changed to admin.
C21_Witness ==
    \E r1, r2 \in Reqs, h \in held :
        /\ h.body.role = "kader"
        /\ reqs[r1].route = "verify-token" /\ reqs[r1].authorization.token = h
        /\ reqs[r1].pc = "done" /\ reqs[r1].status = 200
        /\ reqs[r2].route = "verify-token"
        /\ reqs[r2].authorization.token = [h EXCEPT !.body.role = "admin"]
        /\ reqs[r2].pc = "done" /\ reqs[r2].status = 401

C23_PrincipalFromStore ==
    [][\A r \in Reqs :
          (reqs[r].pc = "authLookup" /\ reqs'[r] # reqs[r]) =>
              LET id == reqs[r].decoded.userId
                  q == reqs'[r]
              IN (id \in DOMAIN users /\ users[id].is_active) =>
                     /\ q.user.id = id
                     /\ q.user.username = users[id].username
                     /\ q.user.role = users[id].role
                     /\ (q.route \in AdminRoutes /\ RouteValid(q)) =>
                            ((q.pc = "done" /\ q.status = 403)
                                 <=> users[id].role # "admin")]_vars

\* A token issued to an admin has been answered 403 after the demotion of
\* its user, and a token issued to a kader has deleted a profile after the
\* promotion of its user.
C23_Witness ==
    \E r1, r2 \in Reqs :
        /\ reqs[r1].decoded.role = "admin" /\ reqs[r1].user.role = "kader"
        /\ reqs[r1].pc = "done" /\ reqs[r1].status = 403
        /\ reqs[r2].decoded.role = "kader" /\ reqs[r2].user.role = "admin"
        /\ reqs[r2].pc = "done" /\ reqs[r2].status = 200 /\ reqs[r2].wrote

(***************************************************************************)
(* Properties of the keys of the limiter among themselves.                 *)
(***************************************************************************)
\* The attempts stored for key k before the step that are less than a
\* window old.
LiveStored(k) ==
    Cardinality({i \in 1..Len(userAttempts(k)) :
                    now - userAttempts(k)[i] < 15 * 60 * 1000})

\* C25: a call of the limiter for key k leaves what is stored for every
\* other key as it was, and admits exactly when fewer than 5 of the
\* attempts stored for k are less than 15 minutes old.
C25_KeysIndependent ==
    [][\A k \in DOMAIN calls' :
          CalledFor(k) =>
              /\ \A j \in (DOMAIN rateLimitStore \cup DOMAIN rateLimitStore') \ {k} :
                     /\ j \in DOMAIN rateLimitStore /\ j \in DOMAIN rateLimitStore'
                     /\ rateLimitStore'[j] = rateLimitStore[j]
              /\ LastCall(k).next <=> LiveStored(k) < 5]_vars

\* One key is full and has just been rejected while another key, with
\* fewer attempts stored, was admitted at the same time.
C25_Witness ==
    \E k, j \in DOMAIN calls :
        /\ k # j
        /\ Len(userAttempts(k)) = 5 /\ ~calls[k][Len(calls[k])].next
        /\ calls[k][Len(calls[k])].at = now
        /\ Len(userAttempts(j)) = 1 /\ calls[j][Len(calls[j])].next
        /\ calls[j][Len(calls[j])].at = now

(***************************************************************************)
(* Properties of the key of the limiter.                                   *)
(***************************************************************************)
\* C24: two login requests from one address for different usernames are
\* counted under different keys of the limiter.
C24_KeyPerUsername ==
    \A r1, r2 \in Reqs :
        (/\ reqs[r1].route = "login" /\ reqs[r2].route = "login"
         /\ reqs[r1].key # <<"", "">> /\ reqs[r2].key # <<"", "">>
         /\ reqs[r1].ip = reqs[r2].ip
         /\ reqs[r1].username # reqs[r2].username)
            => reqs[r1].key # reqs[r2].key

(***************************************************************************)
(* Properties of transaction.                                              *)
(***************************************************************************)
\* C26: a connection that was acquired is released once and never more;
\* a commit follows a callback that returned, and gives {success: true};
\* when the callback or the commit threw, the rollback has been performed,
\* nothing is committed and the result is {success: false}; a transaction
\* is never both committed and rolled back.
C26_TransactionOutcome ==
    /\ tx.released <= 1
    /\ tx.released = 1 => tx.acquired
    /\ ~(tx.committed /\ tx.rolledBack)
    /\ tx.committed => (tx.returned /\ tx.threw = "" /\ tx.result = "success")
    /\ (tx.pc = "done" /\ tx.acquired) =>
           /\ tx.released = 1
           /\ tx.result = "success" <=> tx.committed
           /\ tx.threw \in {"callback", "commit"} =>
                  (tx.rolledBack /\ ~tx.committed /\ tx.result = "failure")

(***************************************************************************)
(* Properties of concurrent registrations.                                 *)
(***************************************************************************)
\* C27: no two users have the same username, and of two register requests
\* with the same username that have both been answered, at most one has
\* inserted and the other was answered 400 "Username already exists".
C27_NoDuplicateUsername ==
    /\ \A i, j \in DOMAIN users :
           users[i].username = users[j].username => i = j
    /\ \A r1, r2 \in Reqs :
           (/\ r1 # r2
            /\ reqs[r1].route = "register" /\ reqs[r2].route = "register"
            /\ reqs[r1].body.username = reqs[r2].body.username
            /\ reqs[r1].pc = "done" /\ reqs[r2].pc = "done"
            /\ reqs[r1].wrote)
               => /\ ~reqs[r2].wrote
                  /\ reqs[r2].status = 400
                  /\ reqs[r2].message = "Username already exists"

(***************************************************************************)
(* Properties of validatePIN.                                              *)
(***************************************************************************)
\* C28: an authenticated request that validatePIN has answered or passed
\* on was passed on exactly when its pin is the PIN stored for its
\* principal, was answered 400 when it had no pin and 401 when its pin
\* differs, the PIN having been looked up by the id of the principal.
C28_PinAdmitsOwnPin ==
    \A r \in Reqs :
        LET q == reqs[r] IN
        (q.route = "pin" /\ q.user # NoRow) =>
            /\ q.pc = "pinLookup" => SameValue(q.pinUserId, JNum(q.user.id))
            /\ (q.pc = "done" /\ q.pin = "") => q.status = 400
            /\ (q.pc = "done" /\ q.pin # "" /\ ~q.dbFailed) =>
                   IF q.pin = StoredPin(q.user.id)
                   THEN q.status = 200
                   ELSE q.status = 401

(***************************************************************************)
(* Properties of the checkup routes.                                       *)
(***************************************************************************)
\* C29: every stored checkup has its gula_darah in 50..500, and an
\* authenticated request to POST /api/checkups or PUT /api/checkups/:id
\* that carries a gula_darah outside that range, 0 included, has been
\* answered 400.
C29_GulaDarahInRange ==
    /\ \A c \in DOMAIN checkups : checkups[c].gula_darah \in 50..500
    /\ \A r \in Reqs :
          LET q == reqs[r] IN
          (/\ q.route \in CheckupRoutes /\ q.pc = "done" /\ q.user # NoRow
           /\ q.gula_darah.t # "undefined"
           /\ ToNumber(q.gula_darah) \notin 50..500) => q.status = 400

(***************************************************************************)
(* Properties of the cleanup script.                                       *)
(***************************************************************************)
\* C30: no user is removed while no user is named admin; a run that
\* removes users leaves exactly the users that were named admin, at least
\* one of them, and removes no user whose role is admin.
C30_CleanupKeepsAdmins ==
    [][LET named == {i \in DOMAIN users : users[i].username = "admin"}
           removed == DOMAIN users \ DOMAIN users'
       IN /\ named = {} => removed = {}
          /\ removed # {} =>
                /\ DOMAIN users' = named
                /\ DOMAIN users' # {}
                /\ \A i \in removed : users[i].role # "admin"]_vars

=============================================================================
